---- MODULE Spec2Model ----
\* Verification model of the gem5-SALAM timing core:
\*   - Gem5MemoryPort  (salam-core/adapters/gem5/gem5_memory_port.hh)
\*   - MemoryRequest / SimpleMemory (salam-core/include/salam/memory_interface.hh)
\*   - HardwareComponent / ClockedComponent
\*       (salam-core/include/salam/hardware_component.hh)
\*   - Gem5SimulationContext (salam-core/adapters/gem5/gem5_simulation_context.hh)
\*   - HWStatistics, both variants (scripts/patches/temp_hw_statistics.cc and
\*       scripts/patches/temp_hw_statistics_enhanced.cc), with its
\*       PowerAreaCoefficients files and its report output
\*   - GUIPublisher (src/hwacc/gui_publisher.cc)
EXTENDS Integers, Sequences, FiniteSets, TLC

\* ---------------------------------------------------------------- bounds

\* Last simulated tick the clock is advanced to.
MaxTick == 1
\* How many submissions the downstream accepts in a run.
MaxAccepts == 2
\* How many rejected-while-stalled submissions are remembered per stall.
MaxStalledSubs == 1
\* Width in bits of the model's addresses and sizes (uint64_t, scaled down).
AddrBits == 3
\* Largest storage size and largest request size.
MaxSize == 2
\* Width in bits of the model's ticks (Tick is uint64_t, scaled down).
TickBits == 3
\* How many times events are submitted to the event queue in a run.
MaxSubs == 3
\* Largest stat_buffer_size (window capacity, in snapshots).
MaxBufSize == 2
\* How many snapshots are recorded between two resets.
MaxRecords == 5
\* How many stall cycles are recorded between two resets.
MaxStalls == 3

\* recordFUContention calls, and recordPortContention calls, between resets
MaxContentions == 2

\* recordFUBusy calls between resets
MaxBusy == 2

\* recordMemoryRead and recordMemoryWrite calls between resets
MaxAccesses == 1

\* How many cycles are bracketed by cycle start and cycle end in a run.
MaxCycles == 3

\* Longest technology_node, in pieces of text, that is still saved to a file.
MaxNodeLength == 2

\* Width in bits of the model's cycle numbers (uint64_t, scaled down).
CycleBits == 8

\* ------------------------------------------------ memory request (value type)

\* enum class MemoryRequestType
MemoryRequestType ==
    {"Read", "Write", "ReadExclusive", "WriteInvalidate",
     "Invalidate", "Prefetch", "Flush"}

\* MemoryRequest::isRead
isRead(type) == type = "Read" \/ type = "ReadExclusive"

\* MemoryRequest::isWrite
isWrite(type) == type = "Write" \/ type = "WriteInvalidate"

\* ------------------------------------------------------ small map helpers

\* std::map operator[]= on a map kept as a TLA+ function
MapPut(f, k, v) == [a \in DOMAIN f \cup {k} |-> IF a = k THEN v ELSE f[a]]

\* std::map::erase
MapErase(f, k) == [a \in DOMAIN f \ {k} |-> f[a]]

\* ========================================================== Gem5MemoryPort

\* The request objects the callers of the port own (MemoryRequest&).
Requests == {"A", "B"}

\* The kind each of those requests was constructed with.
ReqType == [r \in Requests |->
    IF r = "A" THEN "Read" ELSE "Write"]

\* The size each of those requests was constructed with.
ReqSize == [r \in Requests |-> 1]

\* Number of packets the downstream (gem5 side) holds before it refuses: fewer
\* than there are request objects, so that it refuses for lack of room too.
MaxInflight == Cardinality(Requests) - 1

\* Heap addresses a gem5::Packet can be allocated at: one more than the
\* downstream can hold, so the allocation in createPacket always succeeds.
PktAddrs == 1 .. (MaxInflight + 1)

\* A response for a packet this port never sent (handleTimingResponse's miss).
ForeignPkt == 0

VARIABLES
    stalled,            \* bool stalled
    retryQueue,         \* std::queue<MemoryRequest*> retryQueue
    pendingRequests,    \* std::map<PacketPtr, MemoryRequest*> pendingRequests
    packets,            \* the live gem5::Packet objects, by address
    completionCallback, \* whether a non-empty MemoryCallback is registered
    reqs,               \* the fields of each caller-owned MemoryRequest
    curTick,            \* gem5::curTick()
    accepts,            \* history: acceptances downstream, per request
    callbacks,          \* history: completion callbacks run, per request
    missed,             \* history: responses handled with no callback set
    stalledSubs,        \* history: requests rejected because of the stall
    lastCall            \* history: the call that led to this state

portVars == <<stalled, retryQueue, pendingRequests, packets,
              completionCallback, reqs, curTick, accepts, callbacks,
              missed, stalledSubs, lastCall>>

VARIABLES
    base,               \* SimpleMemory::base
    storage,            \* SimpleMemory::storage
    mreq,               \* the MemoryRequest handed to the SimpleMemory
    mlast               \* history: the call that led to this state

memVars == <<base, storage, mreq, mlast>>

VARIABLES
    state,              \* HardwareComponent::state
    period,             \* ClockedComponent::period
    cycleOut,           \* the last nextCycle(after) call and what it returned
    lastComp            \* history: the lifecycle call that led to this state

compVars == <<state, period, cycleOut, lastComp>>

VARIABLES
    ownedEvents,        \* Gem5SimulationContext::ownedEvents (the events made)
    mainEventQueue,     \* the gem5 event queue the context schedules on
    simNow,             \* gem5::curTick() as the event queue advances it
    nextSub,            \* history: number of submissions to the queue so far
    executed,           \* history: the events processed, in processing order
    panicked,           \* the event queue was misused (gem5 asserts)
    lastCtx             \* history: the context call that led to this state

ctxVars == <<ownedEvents, mainEventQueue, simNow, nextSub, executed,
             panicked, lastCtx>>

VARIABLES
    variant,            \* which HWStatistics: temp_hw_statistics(_enhanced).cc
    cycle_tracking,     \* HWStatistics::cycle_tracking
    stat_buffer_size,   \* HWStatistics::stat_buffer_size
    hw_buffer_list,     \* HWStatistics::hw_buffer_list, the windows
    hw_buffer,          \* iterator into hw_buffer_list, as an index from 1
    cycle_buffer,       \* iterator into *hw_buffer, as an index from 1
    current_buffer_index, \* HWStatistics::current_buffer_index
    current_cycle_stats,  \* HWStatistics::current_cycle_stats
    summary,            \* HWStatistics::summary
    power_area_config,  \* HWStatistics::power_area_config
    recorded,           \* history: snapshots recorded since the last reset
    rotations,          \* history: updateBuffer runs since the last reset
    startedEmpty,       \* history: the windows were empty at the last reset
    closedStreaks,      \* history: stall streaks closed since the last reset
    openStalls,         \* history: recordStallCause calls in the open streak
    longestRun,         \* history: the longest streak since the last reset
    busyCalls,          \* history: recordFUBusy calls per type since reset
    lastStat            \* history: the statistics call that led to this state

statVars == <<variant, cycle_tracking, stat_buffer_size, hw_buffer_list,
              hw_buffer, cycle_buffer, current_buffer_index,
              current_cycle_stats, summary, power_area_config, recorded,
              rotations, startedEmpty, closedStreaks, openStalls,
              longestRun, busyCalls, lastStat>>

VARIABLES
    gui,                \* the GUIPublisher: its members and the build it is in
    emitted,            \* history: cycles of the last two cycle_update messages
    lastGui             \* history: the publisher call that led to this state

guiVars == <<gui, emitted, lastGui>>

VARIABLES
    exportParams,       \* output_statistics, output_file, gui_stats_enabled
    reportFile          \* the file output_file names, as it is on disk

exportVars == <<exportParams, reportFile>>

VARIABLES
    simCycle            \* history: the cycles bracketed by cycle start and end

cycleVars == <<simCycle>>

VARIABLES
    coefficients,       \* a PowerAreaCoefficients object
    configFile,         \* the coefficient file on disk
    lastCoeff           \* history: the load or save that led to this state

coeffVars == <<coefficients, configFile, lastCoeff>>

\* The parts added around the statistics engine.
outputVars == <<guiVars, exportVars, cycleVars, coeffVars>>

vars == <<portVars, memVars, compVars, ctxVars, statVars, outputVars>>

\* What a step of one part leaves alone: all the other parts.
otherThanPort == <<memVars, compVars, ctxVars, statVars, outputVars>>
otherThanMem == <<portVars, compVars, ctxVars, statVars, outputVars>>
otherThanComp == <<portVars, memVars, ctxVars, statVars, outputVars>>
otherThanCtx == <<portVars, memVars, compVars, statVars, outputVars>>
otherThanStat == <<portVars, memVars, compVars, ctxVars, outputVars>>
otherThanGui == <<portVars, memVars, compVars, ctxVars, statVars, exportVars,
                  cycleVars, coeffVars>>
otherThanCoeff == <<portVars, memVars, compVars, ctxVars, statVars, guiVars,
                    exportVars, cycleVars>>

\* ============================================================ SimpleMemory

\* 2^n
RECURSIVE Pow2(_)
Pow2(n) == IF n = 0 THEN 1 ELSE 2 * Pow2(n - 1)

\* uint64_t / size_t arithmetic, at the model's width.
Wrap(x) == x % Pow2(AddrBits)

\* The addresses of that width.
Addrs == 0 .. (Pow2(AddrBits) - 1)

\* The byte values of the model.
Bytes == {0, 1}

\* The base addresses tried: the bottom of the address space, an address above
\* it, and the base of a memory of MaxSize bytes that ends at the top of it.
Bases == {0, 1, Pow2(AddrBits) - MaxSize}

\* The request kinds tried; Prefetch and Flush take the branches Invalidate
\* takes everywhere.
TriedTypes == MemoryRequestType \ {"Prefetch", "Flush"}

\* MemoryRequest(): the default constructor
DefaultRequest ==
    [type |-> "Read", addr |-> 0, size |-> 0, data |-> <<>>,
     completed |-> FALSE, success |-> FALSE]

\* MemoryRequest(reqId, reqType, address, reqSize)
MemoryRequest(type, addr, size) ==
    [type |-> type, addr |-> addr, size |-> size,
     data |-> IF type = "Write" THEN [i \in 1 .. size |-> 0] ELSE <<>>,
     completed |-> FALSE, success |-> FALSE]

\* storage.begin()[k]: the byte at index k, or, past the end of the vector,
\* whatever byte g the out-of-bounds read yields.
StorageAt(st, k, g) == IF Wrap(k) < Len(st) THEN st[Wrap(k) + 1] ELSE g

\* req.data.begin()[i - 1]: the i-th payload byte, or, past the end of the
\* payload, whatever byte g the out-of-bounds read yields.
DataAt(d, i, g) == IF i <= Len(d) THEN d[i] ELSE g

\* The range check of recvFunctional, in the machine's arithmetic.
RangeCheckFails(st, b, rq) ==
    rq.addr < b \/ Wrap(rq.addr + rq.size) > Wrap(b + Len(st))

\* SimpleMemory::recvFunctional on storage st at base b; g[i] is the byte an
\* out-of-bounds read of the i-th byte yields.
recvFunctional(st, b, rq, g) ==
    IF RangeCheckFails(st, b, rq)
    THEN [storage |-> st, req |-> [rq EXCEPT !.success = FALSE]]
    ELSE
      LET offset == Wrap(rq.addr - b)
      IN IF isRead(rq.type)
         THEN [storage |-> st,
               req |-> [rq EXCEPT
                   !.data = [i \in 1 .. rq.size |->
                                StorageAt(st, offset + i - 1, g[i])],
                   !.success = TRUE]]
         ELSE IF isWrite(rq.type)
         THEN [storage |->
                   [j \in 1 .. Len(st) |->
                       IF \E i \in 1 .. rq.size : Wrap(offset + i - 1) = j - 1
                       THEN LET i == CHOOSE i \in 1 .. rq.size :
                                         Wrap(offset + i - 1) = j - 1
                            IN DataAt(rq.data, i, g[i])
                       ELSE st[j]],
               req |-> [rq EXCEPT !.success = TRUE]]
         ELSE [storage |-> st, req |-> [rq EXCEPT !.success = TRUE]]

\* The storage offsets the two std::copy calls of recvFunctional touch for a
\* request that passed the range check: offset .. offset + size - 1, for a
\* read or a write.
TouchedOffsets(b, rq) ==
    IF isRead(rq.type) \/ isWrite(rq.type)
    THEN {Wrap(rq.addr - b) + i - 1 : i \in 1 .. rq.size}
    ELSE {}

\* SimpleMemory::recvTimingRequest
recvTimingRequest(st, b, rq, g) ==
    LET r == recvFunctional(st, b, rq, g)
    IN [storage |-> r.storage,
        req |-> [r.req EXCEPT !.completed = TRUE, !.success = TRUE],
        ret |-> TRUE]

\* What mlast records when no call has been made on the request yet.
NoMemCall == [op |-> "none", req |-> DefaultRequest, storage |-> <<>>]

\* SimpleMemory(baseAddr, size): zero-filled storage; no request made yet.
InitMem ==
    /\ base \in Bases
    /\ \E size \in 1 .. MaxSize : storage = [i \in 1 .. size |-> 0]
    /\ mreq = DefaultRequest
    /\ mlast = NoMemCall

\* The memory while the port is looked at: one memory, left alone.
IdleMem ==
    /\ base = 0
    /\ storage = <<0>>
    /\ mreq = DefaultRequest
    /\ mlast = NoMemCall

\* A caller constructs a request.
Construct ==
    \E type \in TriedTypes, addr \in Addrs, size \in 0 .. MaxSize :
        /\ mreq' = MemoryRequest(type, addr, size)
        /\ mlast' = NoMemCall
        /\ UNCHANGED <<base, storage, otherThanMem>>

\* The caller of a write fills in the payload, size bytes of it.
SetData ==
    \E bytes \in [1 .. mreq.size -> Bytes] :
        /\ isWrite(mreq.type)
        /\ mlast.op = "none"
        /\ mreq' = [mreq EXCEPT !.data = bytes]
        /\ UNCHANGED <<base, storage, mlast, otherThanMem>>

\* The request is delivered with recvFunctional.
RecvFunctional ==
    \E g \in [1 .. mreq.size -> Bytes] :
        /\ mlast.op = "none"
        /\ \E r \in {recvFunctional(storage, base, mreq, g)} :
              /\ storage' = r.storage
              /\ mreq' = r.req
        /\ mlast' = [op |-> "recvFunctional", req |-> mreq,
                     storage |-> storage]
        /\ UNCHANGED <<base, otherThanMem>>

\* The request is delivered with recvTimingRequest.
RecvTimingRequest ==
    \E g \in [1 .. mreq.size -> Bytes] :
        /\ mlast.op = "none"
        /\ \E r \in {recvTimingRequest(storage, base, mreq, g)} :
              /\ storage' = r.storage
              /\ mreq' = r.req
        /\ mlast' = [op |-> "recvTimingRequest", req |-> mreq,
                     storage |-> storage]
        /\ UNCHANGED <<base, otherThanMem>>

NextMem ==
    \/ Construct
    \/ SetData
    \/ RecvFunctional
    \/ RecvTimingRequest

\* ==================================== HardwareComponent and ClockedComponent

\* enum class ComponentState
ComponentState ==
    {"Created", "Initialized", "Started", "Draining", "Drained",
     "Resuming", "Stopped"}

\* Tick (uint64_t) arithmetic, at the model's width.
WrapTick(x) == x % Pow2(TickBits)

\* Every value of a Tick.
Ticks == 0 .. Pow2(TickBits) - 1

\* HardwareComponent::init, from state st: the new state.
init(st) == "Initialized"

\* HardwareComponent::startup
startup(st) == "Started"

\* drain that drains asynchronously (faulty variant).
drainAsynchronously(st) == [state |-> "Draining", ret |-> FALSE]

\* HardwareComponent::drain: the new state and the value returned.
drain(st) == [state |-> "Drained", ret |-> TRUE]

\* HardwareComponent::drainResume
drainResume(st) == "Started"

\* ClockedComponent::nextCycle(after), with clock period p.
nextCycle(p, after) ==
    LET current == after
        cycles == current \div p
    IN  WrapTick((cycles + 1) * p)

\* What cycleOut holds before nextCycle was called.
NoCycle == [called |-> FALSE, after |-> 0, next |-> 0]

\* ClockedComponent(name, clockPeriod): state Created, a clock period of at
\* least one tick.
InitComp ==
    /\ state = "Created"
    /\ period \in Ticks \ {0}
    /\ cycleOut = NoCycle
    /\ lastComp = [op |-> "construct", before |-> "Created"]

\* The component while another part is looked at: constructed, left alone.
IdleComp ==
    /\ state = "Created"
    /\ period = 1
    /\ cycleOut = NoCycle
    /\ lastComp = [op |-> "construct", before |-> "Created"]

\* init() is called.
CompInit ==
    /\ state' = init(state)
    /\ lastComp' = [op |-> "init", before |-> state]
    /\ UNCHANGED <<period, cycleOut, otherThanComp>>

\* startup() is called.
CompStartup ==
    /\ state' = startup(state)
    /\ lastComp' = [op |-> "startup", before |-> state]
    /\ UNCHANGED <<period, cycleOut, otherThanComp>>

\* drain() is called.
CompDrain ==
    /\ state' = drain(state).state
    /\ lastComp' = [op |-> "drain", before |-> state]
    /\ UNCHANGED <<period, cycleOut, otherThanComp>>

\* drainResume() is called.
CompDrainResume ==
    /\ state' = drainResume(state)
    /\ lastComp' = [op |-> "drainResume", before |-> state]
    /\ UNCHANGED <<period, cycleOut, otherThanComp>>

\* nextCycle(after) is called.
CompNextCycle ==
    \E after \in Ticks :
        /\ cycleOut' = [called |-> TRUE, after |-> after,
                        next |-> nextCycle(period, after)]
        /\ UNCHANGED <<state, period, lastComp, otherThanComp>>

NextComp ==
    \/ CompInit
    \/ CompStartup
    \/ CompDrain
    \/ CompDrainResume
    \/ CompNextCycle

\* ==================================================== Gem5SimulationContext

\* The events createEvent can make, in the order it makes them.
EventPool == <<"e1", "e2", "e3">>

\* An EventInterface that is not a Gem5Event (the dynamic_cast fails).
ForeignEvent == "foreign"

\* dynamic_cast<Gem5Event*>(event) != nullptr
IsGem5Event(e) == e # ForeignEvent

\* Gem5Event::scheduled
scheduled(q, e) == \E i \in 1 .. Len(q) : q[i].ev = e

\* Gem5Event::when, of a scheduled event
when(q, e) == (CHOOSE x \in {q[i] : i \in 1 .. Len(q)} : x.ev = e).when

\* The simulation as the context's operations see it.
CtxState ==
    [queue |-> mainEventQueue, now |-> simNow, panicked |-> panicked]

\* gem5 EventQueue::insert: the queue is kept in tick order, an event placed
\* behind those already scheduled for its tick.
EventQueueInsert(q, ent) ==
    LET k == Cardinality({i \in 1 .. Len(q) : q[i].when <= ent.when})
    IN  SubSeq(q, 1, k) \o <<ent>> \o SubSeq(q, k + 1, Len(q))

\* gem5 EventQueue::remove
EventQueueRemove(q, e) == SelectSeq(q, LAMBDA x : x.ev # e)

\* gem5 EventQueue::schedule: the event must not be scheduled and the tick
\* must not lie in the past.
EventQueueSchedule(c, e, w, sub, asked) ==
    IF scheduled(c.queue, e) \/ w < c.now
    THEN [c EXCEPT !.panicked = TRUE]
    ELSE [c EXCEPT !.queue = EventQueueInsert(c.queue,
                      [ev |-> e, when |-> w, sub |-> sub, asked |-> asked])]

\* gem5 EventQueue::deschedule: the event must be scheduled.
EventQueueDeschedule(c, e) ==
    IF ~scheduled(c.queue, e)
    THEN [c EXCEPT !.panicked = TRUE]
    ELSE [c EXCEPT !.queue = EventQueueRemove(c.queue, e)]

\* gem5 EventQueue::reschedule: the event must be scheduled and the new tick
\* must not lie in the past.
EventQueueReschedule(c, e, w, sub, asked) ==
    IF ~scheduled(c.queue, e) \/ w < c.now
    THEN [c EXCEPT !.panicked = TRUE]
    ELSE [c EXCEPT !.queue = EventQueueInsert(EventQueueRemove(c.queue, e),
                      [ev |-> e, when |-> w, sub |-> sub, asked |-> asked])]

\* schedule that ignores the tick asked for and uses the current tick
\* (faulty variant).
scheduleNow(c, e, w, sub) ==
    IF IsGem5Event(e)
    THEN EventQueueSchedule(c, e, c.now, sub, w)
    ELSE c

\* Gem5SimulationContext::schedule. With or without an event manager the
\* event goes to the one event queue of the simulation.
schedule(c, e, w, sub) ==
    IF IsGem5Event(e)
    THEN EventQueueSchedule(c, e, w, sub, w)
    ELSE c

\* deschedule without the scheduled() test (faulty variant).
descheduleUnguarded(c, e) ==
    IF IsGem5Event(e)
    THEN EventQueueDeschedule(c, e)
    ELSE c

\* Gem5SimulationContext::deschedule
deschedule(c, e) ==
    IF IsGem5Event(e) /\ scheduled(c.queue, e)
    THEN EventQueueDeschedule(c, e)
    ELSE c

\* Gem5SimulationContext::reschedule
reschedule(c, e, w, sub) ==
    IF IsGem5Event(e)
    THEN IF scheduled(c.queue, e)
         THEN EventQueueReschedule(c, e, w, sub, w)
         ELSE schedule(c, e, w, sub)
    ELSE c

\* HardwareComponent::scheduleEvent(event, delay), the context set.
scheduleEvent(c, e, delay, sub) == schedule(c, e, WrapTick(c.now + delay), sub)

\* Gem5SimulationContext::createEvent: the next event, owned by the context.
createEvent(owned) == Append(owned, EventPool[Len(owned) + 1])

\* The events a caller can hand to the context.
KnownEvents == {ownedEvents[i] : i \in 1 .. Len(ownedEvents)} \cup {ForeignEvent}

\* What lastCtx records of a call.
CtxCall(op, e, w) ==
    [op |-> op, ev |-> e, when |-> w, before |-> CtxState,
     sub |-> nextSub]

\* Gem5SimulationContext(em): no event made, nothing scheduled, tick 0.
InitCtx ==
    /\ ownedEvents = <<>>
    /\ mainEventQueue = <<>>
    /\ simNow = 0
    /\ nextSub = 0
    /\ executed = <<>>
    /\ panicked = FALSE
    /\ lastCtx = [op |-> "construct", ev |-> ForeignEvent, when |-> 0,
                  before |-> [queue |-> <<>>, now |-> 0, panicked |-> FALSE],
                  sub |-> 0]

\* The simulation's fields after a call that left it as c.
CtxBecomes(c) ==
    /\ mainEventQueue' = c.queue
    /\ simNow' = c.now
    /\ panicked' = c.panicked

\* createEvent(callback, name) is called.
CreateEvent ==
    /\ ~panicked
    /\ Len(ownedEvents) < Len(EventPool)
    /\ ownedEvents' = createEvent(ownedEvents)
    /\ lastCtx' = CtxCall("createEvent", ForeignEvent, 0)
    /\ UNCHANGED <<mainEventQueue, simNow, nextSub, executed, panicked,
                   otherThanCtx>>

\* schedule(event, when) is called.
Schedule ==
    \E e \in KnownEvents, w \in 0 .. MaxTick :
        /\ ~panicked
        /\ nextSub < MaxSubs
        /\ \E c \in {schedule(CtxState, e, w, nextSub)} : CtxBecomes(c)
        /\ nextSub' = nextSub + 1
        /\ lastCtx' = CtxCall("schedule", e, w)
        /\ UNCHANGED <<ownedEvents, executed, otherThanCtx>>

\* A component calls scheduleEvent(event, delay).
ScheduleEvent ==
    \E e \in KnownEvents, delay \in 0 .. MaxTick :
        /\ ~panicked
        /\ nextSub < MaxSubs
        /\ simNow + delay <= MaxTick
        /\ \E c \in {scheduleEvent(CtxState, e, delay, nextSub)} :
              CtxBecomes(c)
        /\ nextSub' = nextSub + 1
        /\ lastCtx' = CtxCall("schedule", e, simNow + delay)
        /\ UNCHANGED <<ownedEvents, executed, otherThanCtx>>

\* deschedule(event) is called.
Deschedule ==
    \E e \in KnownEvents :
        /\ ~panicked
        /\ \E c \in {deschedule(CtxState, e)} : CtxBecomes(c)
        /\ lastCtx' = CtxCall("deschedule", e, 0)
        /\ UNCHANGED <<ownedEvents, nextSub, executed, otherThanCtx>>

\* reschedule(event, when) is called.
Reschedule ==
    \E e \in KnownEvents, w \in 0 .. MaxTick :
        /\ ~panicked
        /\ nextSub < MaxSubs
        /\ \E c \in {reschedule(CtxState, e, w, nextSub)} : CtxBecomes(c)
        /\ nextSub' = nextSub + 1
        /\ lastCtx' = CtxCall("reschedule", e, w)
        /\ UNCHANGED <<ownedEvents, executed, otherThanCtx>>

\* gem5 EventQueue::serviceOne: the event at the head of the queue is taken
\* off, the tick becomes its tick and Gem5Event::process runs, to completion.
ServiceOne ==
    /\ ~panicked
    /\ mainEventQueue # <<>>
    /\ mainEventQueue' = Tail(mainEventQueue)
    /\ simNow' = Head(mainEventQueue).when
    /\ executed' = Append(executed,
                      [ev |-> Head(mainEventQueue).ev,
                       asked |-> Head(mainEventQueue).asked,
                       sub |-> Head(mainEventQueue).sub,
                       at |-> Head(mainEventQueue).when])
    /\ lastCtx' = CtxCall("process", Head(mainEventQueue).ev,
                          Head(mainEventQueue).when)
    /\ UNCHANGED <<ownedEvents, nextSub, panicked, otherThanCtx>>

NextCtx ==
    \/ CreateEvent
    \/ Schedule
    \/ ScheduleEvent
    \/ Deschedule
    \/ Reschedule
    \/ ServiceOne

\* ============================================================= HWStatistics
\* Two variants of the class: temp_hw_statistics.cc ("basic") and
\* temp_hw_statistics_enhanced.cc ("enhanced").

\* HW_Cycle_Stats as its default member initialisers and reset() leave it.
NoStats == [cycle |-> 0, resInFlight |-> 0]

\* The cycle snapshots handed to recordCycleStats.
Snapshots ==
    {[cycle |-> 0, resInFlight |-> 1], [cycle |-> 1, resInFlight |-> 1]}

\* enum class StallCause, in the order of its enumerators
StallCause ==
    <<"NONE", "MEMORY_LATENCY", "RAW_HAZARD", "WAW_HAZARD", "WAR_HAZARD",
      "FU_CONTENTION", "PORT_CONTENTION", "CONTROL_FLOW", "DMA_PENDING",
      "RESOURCE_LIMIT">>

\* The causes handed to recordStallCause.
TriedCauses == {"NONE", "MEMORY_LATENCY", "WAW_HAZARD"}

\* enum class FUType, its first three enumerators in order
FUType == <<"FU_TYPE_COUNTER", "FU_TYPE_INT_ADD_SUB", "FU_TYPE_INT_MUL_DIV">>

\* The FU types handed to the recording calls.
TriedFUs == {"FU_TYPE_INT_ADD_SUB", "FU_TYPE_INT_MUL_DIV"}

\* The elements of a sequence.
Range(q) == {q[i] : i \in 1 .. Len(q)}

\* f[q[1]] + ... + f[q[n]], added up in that order.
RECURSIVE SumOver(_, _, _)
SumOver(f, q, n) == IF n = 0 THEN 0 ELSE SumOver(f, q, n - 1) + f[q[n]]

\* The parts a nanojoule is held in.
NanojouleParts == 1000000

\* PowerStats after reset(). Power is held in whole parts of a milliwatt and
\* energy in whole millionths of a nanojoule of the same parts, so that every
\* product and the division by 1e6 of the source are exact.
ZeroPower ==
    [fu_leakage |-> 0, fu_dynamic |-> 0, fu_total |-> 0,
     reg_leakage |-> 0, reg_dynamic |-> 0, reg_total |-> 0,
     spm_leakage |-> 0, spm_read_dynamic |-> 0, spm_write_dynamic |-> 0,
     spm_total |-> 0,
     cache_leakage |-> 0, cache_read_dynamic |-> 0,
     cache_write_dynamic |-> 0, cache_total |-> 0,
     total_power |-> 0, acc_spm_total |-> 0, acc_cache_total |-> 0,
     total_energy_nj |-> 0, fu_energy_nj |-> 0, mem_energy_nj |-> 0,
     reg_energy_nj |-> 0]

\* SummaryStats after reset(): the performance counters, the StallBreakdown,
\* the FU utilisation and static counts, the register, memory and memory
\* access counters that power is computed from, and the PowerStats.
ZeroSummary ==
    [total_cycles |-> 0, stall_cycles |-> 0, clock_period_ns |-> 0,
     by_cause |-> [c \in Range(StallCause) |-> 0],
     total_stall_cycles |-> 0, max_consecutive_stalls |-> 0,
     current_stall_streak |-> 0, stall_events |-> 0,
     fu_stalls_by_type |-> [t \in Range(FUType) |-> 0],
     read_port_stalls |-> 0, write_port_stalls |-> 0,
     fu_utilization |->
         [by_type |->
              [t \in Range(FUType) |->
                  [total_busy_cycles |-> 0, total_operations |-> 0,
                   contention_stalls |-> 0, contention_requests |-> 0]],
          total_fu_busy_cycles |-> 0, total_contention_stalls |-> 0],
     static_count |-> [t \in Range(FUType) |-> 0],
     registers |-> [total |-> 0, reads |-> 0, writes |-> 0],
     memory |-> [cache_size_kb |-> 0, spm_size_kb |-> 0],
     memory_access |->
         [cache_read_hits |-> 0, cache_read_misses |-> 0,
          cache_write_hits |-> 0, cache_write_misses |-> 0,
          spm_reads |-> 0, spm_writes |-> 0,
          read_port_stalls |-> 0, write_port_stalls |-> 0],
     power |-> ZeroPower,
     cycle_summary |-> [total_samples |-> 0]]

\* PowerAreaCoefficients: the table setDefaults() leaves, with the integer
\* adder's FU coefficients rounded to thousandths of a milliwatt and small
\* whole numbers standing for the other coefficients.
DefaultCoefficients ==
    [fu_coeffs |->
         [t \in Range(FUType) |->
             IF t = "FU_TYPE_INT_ADD_SUB"
             THEN [leakage_mw |-> 2, dynamic_read_mw |-> 8,
                   dynamic_write_mw |-> 6]
             ELSE IF t = "FU_TYPE_INT_MUL_DIV"
             THEN [leakage_mw |-> 5, dynamic_read_mw |-> 7,
                   dynamic_write_mw |-> 9]
             ELSE [leakage_mw |-> 0, dynamic_read_mw |-> 0,
                   dynamic_write_mw |-> 0]],
     reg_leakage_per_bit_mw |-> 1, reg_dynamic_read_mw |-> 3,
     reg_dynamic_write_mw |-> 2,
     spm_leakage_per_kb_mw |-> 5, spm_read_dynamic_per_access_mw |-> 1,
     spm_write_dynamic_per_access_mw |-> 2,
     cache_leakage_per_kb_mw |-> 8, cache_read_dynamic_per_access_mw |-> 2,
     cache_write_dynamic_per_access_mw |-> 3]

\* The coefficient tables a caller can leave in power_area_config through
\* getPowerAreaConfig(): the defaults and one with every coefficient changed.
Coefficients ==
    {DefaultCoefficients,
     [fu_coeffs |->
          [t \in Range(FUType) |->
              [leakage_mw |-> 1, dynamic_read_mw |-> 2,
               dynamic_write_mw |-> 1]],
      reg_leakage_per_bit_mw |-> 2, reg_dynamic_read_mw |-> 1,
      reg_dynamic_write_mw |-> 1,
      spm_leakage_per_kb_mw |-> 3, spm_read_dynamic_per_access_mw |-> 2,
      spm_write_dynamic_per_access_mw |-> 1,
      cache_leakage_per_kb_mw |-> 4, cache_read_dynamic_per_access_mw |-> 1,
      cache_write_dynamic_per_access_mw |-> 2]}

\* What a call that stores no snapshot leaves in s.wrote.
NoWrite == [stored |-> FALSE, window |-> 0, pos |-> 0, inside |-> TRUE]

\* The statistics engine as its operations see it; rotations counts the runs
\* of updateBuffer and wrote describes the snapshot a call stored.
StatsState ==
    [variant |-> variant, cycle_tracking |-> cycle_tracking,
     stat_buffer_size |-> stat_buffer_size,
     hw_buffer_list |-> hw_buffer_list, hw_buffer |-> hw_buffer,
     cycle_buffer |-> cycle_buffer,
     current_buffer_index |-> current_buffer_index,
     current_cycle_stats |-> current_cycle_stats, summary |-> summary,
     rotations |-> rotations, wrote |-> NoWrite]

\* HWStatistics::HWStatistics(params): two windows when cycle tracking is on,
\* empty ones reserved for K snapshots (basic) or K default snapshots each
\* (enhanced).
HWStatistics(v, tracking, K) ==
    [variant |-> v, cycle_tracking |-> tracking, stat_buffer_size |-> K,
     hw_buffer_list |->
         IF ~tracking THEN <<>>
         ELSE IF v = "basic" THEN <<(<<>>), (<<>>)>>
         ELSE [b \in 1 .. 2 |-> [i \in 1 .. K |-> NoStats]],
     hw_buffer |-> 1, cycle_buffer |-> 1, current_buffer_index |-> 0,
     current_cycle_stats |-> NoStats, summary |-> ZeroSummary,
     rotations |-> 0, wrote |-> NoWrite]

\* updateBuffer of temp_hw_statistics.cc: on to the next window, a new one
\* pushed when none remains.
updateBufferBasic(s) ==
    LET idx == s.current_buffer_index + 1
        list == IF idx >= Len(s.hw_buffer_list)
                THEN Append(s.hw_buffer_list, <<>>)
                ELSE s.hw_buffer_list
    IN  [s EXCEPT !.current_buffer_index = idx,
                  !.hw_buffer_list = list,
                  !.hw_buffer = idx + 1,
                  !.cycle_buffer = 1,
                  !.rotations = @ + 1]

\* updateBuffer of temp_hw_statistics_enhanced.cc: on to the next window,
\* back to the first after the last.
updateBufferEnhanced(s) ==
    LET next == IF s.hw_buffer + 1 > Len(s.hw_buffer_list)
                THEN 1 ELSE s.hw_buffer + 1
    IN  [s EXCEPT !.hw_buffer = next,
                  !.cycle_buffer = 1,
                  !.current_buffer_index =
                      (@ + 1) % Len(s.hw_buffer_list),
                  !.rotations = @ + 1]

\* updateBuffer that rotates two windows on (faulty variant).
updateBufferTwice(s) ==
    IF s.variant = "basic"
    THEN updateBufferBasic(updateBufferBasic(s))
    ELSE updateBufferEnhanced(updateBufferEnhanced(s))

\* updateBuffer that rewinds the cursor but stays in the window (faulty
\* variant).
updateBufferStays(s) ==
    [s EXCEPT !.cycle_buffer = 1, !.rotations = @ + 1]

\* HWStatistics::updateBuffer
updateBuffer(s) ==
    IF s.variant = "basic"
    THEN updateBufferBasic(s)
    ELSE updateBufferEnhanced(s)

\* recordCycleStats of temp_hw_statistics.cc: push_back onto the window at
\* current_buffer_index, then rotate when the window is full.
recordCycleStatsBasic(s, stats) ==
    IF ~s.cycle_tracking THEN s
    ELSE
    LET w == s.current_buffer_index + 1
        pos == Len(s.hw_buffer_list[w]) + 1
        pushed == [s EXCEPT !.current_cycle_stats = stats,
                            !.hw_buffer_list[w] = Append(@, stats),
                            !.wrote = [stored |-> TRUE, window |-> w,
                                       pos |-> pos,
                                       inside |-> pos <= s.stat_buffer_size]]
    IN  IF Len(pushed.hw_buffer_list[w]) >= s.stat_buffer_size
        THEN updateBuffer(pushed)
        ELSE pushed

\* recordCycleStats of temp_hw_statistics_enhanced.cc: store through the
\* cursor, advance it, rotate when it reaches the end of the window. A store
\* through a cursor at the end of the window is outside the vector; the model
\* marks it (wrote.inside) and stores nothing.
recordCycleStatsEnhanced(s, stats) ==
    IF ~s.cycle_tracking THEN s
    ELSE
    LET w == s.hw_buffer
        pos == s.cycle_buffer
        inside == pos <= Len(s.hw_buffer_list[w])
        mark == [stored |-> TRUE, window |-> w, pos |-> pos,
                 inside |-> inside]
        written == IF inside
                   THEN [s EXCEPT !.hw_buffer_list[w][pos] = stats,
                                  !.cycle_buffer = pos + 1,
                                  !.wrote = mark]
                   ELSE [s EXCEPT !.cycle_buffer = pos + 1,
                                  !.wrote = mark]
    IN  IF written.cycle_buffer = Len(s.hw_buffer_list[w]) + 1
        THEN updateBuffer(written)
        ELSE written

\* recordCycleStats that never rotates (faulty variant).
recordCycleStatsNoRotate(s, stats) ==
    IF ~s.cycle_tracking THEN s
    ELSE IF s.variant = "basic"
    THEN LET w == s.current_buffer_index + 1
             pos == Len(s.hw_buffer_list[w]) + 1
         IN  [s EXCEPT !.current_cycle_stats = stats,
                       !.hw_buffer_list[w] = Append(@, stats),
                       !.wrote = [stored |-> TRUE, window |-> w, pos |-> pos,
                                  inside |-> pos <= s.stat_buffer_size]]
    ELSE LET w == s.hw_buffer
             pos == s.cycle_buffer
             inside == pos <= Len(s.hw_buffer_list[w])
             mark == [stored |-> TRUE, window |-> w, pos |-> pos,
                      inside |-> inside]
         IN  IF inside
             THEN [s EXCEPT !.hw_buffer_list[w][pos] = stats,
                            !.cycle_buffer = pos + 1, !.wrote = mark]
             ELSE [s EXCEPT !.cycle_buffer = pos + 1, !.wrote = mark]

\* HWStatistics::recordCycleStats
recordCycleStats(s, stats) ==
    IF s.variant = "basic"
    THEN recordCycleStatsBasic(s, stats)
    ELSE recordCycleStatsEnhanced(s, stats)

\* The inner loop of the enhanced summarizeCycleStats over one window, from
\* position i with count samples so far: it leaves the window at the first
\* snapshot of cycle 0 once a sample has been counted.
RECURSIVE CountWindow(_, _, _)
CountWindow(buffer, i, count) ==
    IF i > Len(buffer) THEN count
    ELSE IF buffer[i].cycle = 0 /\ count > 0 THEN count
    ELSE CountWindow(buffer, i + 1, count + 1)

\* The outer loop of the enhanced summarizeCycleStats, from window b.
RECURSIVE CountWindows(_, _, _)
CountWindows(list, b, count) ==
    IF b > Len(list) THEN count
    ELSE CountWindows(list, b + 1, CountWindow(list[b], 1, count))

\* The loops of the basic summarizeCycleStats: every stored snapshot counts.
RECURSIVE CountStored(_, _)
CountStored(list, b) ==
    IF b > Len(list) THEN 0
    ELSE Len(list[b]) + CountStored(list, b + 1)

\* HWStatistics::summarizeCycleStats, its total_samples
summarizeCycleStats(s) ==
    [total_samples |->
        IF ~s.cycle_tracking THEN 0
        ELSE IF s.variant = "basic" THEN CountStored(s.hw_buffer_list, 1)
        ELSE CountWindows(s.hw_buffer_list, 1, 0)]

\* HWStatistics::clearStats: the basic one resets the current snapshot only;
\* the enhanced one resets the summary, every stored snapshot and the cursor.
clearStats(s) ==
    IF s.variant = "basic"
    THEN [s EXCEPT !.current_cycle_stats = NoStats]
    ELSE IF ~s.cycle_tracking
    THEN [s EXCEPT !.summary = ZeroSummary, !.current_cycle_stats = NoStats]
    ELSE [s EXCEPT !.summary = ZeroSummary,
                   !.current_cycle_stats = NoStats,
                   !.hw_buffer_list =
                       [b \in 1 .. Len(@) |->
                           [i \in 1 .. Len(@[b]) |-> NoStats]],
                   !.hw_buffer = 1,
                   !.cycle_buffer = 1,
                   !.current_buffer_index = 0]

\* HWStatistics::collectPerformanceStats, its clock period and cycle counters
collectPerformanceStats(s, clock_period, cycles, stalls) ==
    [s EXCEPT !.summary.clock_period_ns = clock_period,
              !.summary.total_cycles = cycles,
              !.summary.stall_cycles = stalls]

\* std::max
Max(a, b) == IF a >= b THEN a ELSE b

\* recordStall that keeps the longest streak as it was (faulty variant).
recordStallCauseNoMax(s, cause) ==
    [s EXCEPT !.summary.by_cause[cause] = @ + 1,
              !.summary.total_stall_cycles = @ + 1,
              !.summary.current_stall_streak = @ + 1]

\* HWStatistics::recordStallCause, StallBreakdown::recordStall
recordStallCause(s, cause) ==
    [s EXCEPT !.summary.by_cause[cause] = @ + 1,
              !.summary.total_stall_cycles = @ + 1,
              !.summary.current_stall_streak = @ + 1,
              !.summary.max_consecutive_stalls =
                  Max(@, s.summary.current_stall_streak + 1)]

\* recordNoStall that counts an event whether or not a streak was open
\* (faulty variant).
recordNoStallAlways(s) ==
    [s EXCEPT !.summary.stall_events = @ + 1,
              !.summary.current_stall_streak = 0]

\* HWStatistics::recordNoStall, StallBreakdown::recordNoStall
recordNoStall(s) ==
    [s EXCEPT !.summary.stall_events =
                  IF s.summary.current_stall_streak > 0 THEN @ + 1 ELSE @,
              !.summary.current_stall_streak = 0]

\* HWStatistics::recordFUContention that leaves the stall breakdown's bucket
\* of the type alone (faulty variant).
recordFUContentionOneSided(s, type) ==
    [s EXCEPT !.summary.fu_utilization.by_type[type].contention_stalls = @ + 1,
              !.summary.fu_utilization.by_type[type].contention_requests =
                  @ + 1,
              !.summary.fu_utilization.total_contention_stalls = @ + 1,
              !.summary.by_cause["FU_CONTENTION"] = @ + 1]

\* HWStatistics::recordFUContention
recordFUContention(s, type) ==
    [s EXCEPT !.summary.fu_utilization.by_type[type].contention_stalls = @ + 1,
              !.summary.fu_utilization.by_type[type].contention_requests =
                  @ + 1,
              !.summary.fu_utilization.total_contention_stalls = @ + 1,
              !.summary.fu_stalls_by_type[type] = @ + 1,
              !.summary.by_cause["FU_CONTENTION"] = @ + 1]

\* HWStatistics::recordFUStall
recordFUStall(s, type) ==
    recordStallCause(recordFUContention(s, type), "FU_CONTENTION")

\* HWStatistics::recordPortContention
recordPortContention(s, is_read) ==
    IF is_read
    THEN [s EXCEPT !.summary.memory_access.read_port_stalls = @ + 1,
                   !.summary.read_port_stalls = @ + 1,
                   !.summary.by_cause["PORT_CONTENTION"] = @ + 1]
    ELSE [s EXCEPT !.summary.memory_access.write_port_stalls = @ + 1,
                   !.summary.write_port_stalls = @ + 1,
                   !.summary.by_cause["PORT_CONTENTION"] = @ + 1]

\* The loop of StallBreakdown::getDominantCause from enumerator i on (i counts
\* from 1 here, so that enumerator 0 is StallCause[1]); atLeast makes the
\* comparison >= in place of the source's >.
RECURSIVE DominantFrom(_, _, _, _, _)
DominantFrom(by_cause, i, dominant, max_stalls, atLeast) ==
    IF i > Len(StallCause) THEN dominant
    ELSE IF \/ by_cause[StallCause[i]] > max_stalls
            \/ atLeast /\ by_cause[StallCause[i]] = max_stalls
                       /\ max_stalls > 0
         THEN DominantFrom(by_cause, i + 1, StallCause[i],
                           by_cause[StallCause[i]], atLeast)
         ELSE DominantFrom(by_cause, i + 1, dominant, max_stalls, atLeast)

\* getDominantCause that lets a later cause with an equal count win (faulty
\* variant).
getDominantCauseLastWins(s) ==
    DominantFrom(s.summary.by_cause, 2, "NONE", 0, TRUE)

\* StallBreakdown::getDominantCause
getDominantCause(s) == DominantFrom(s.summary.by_cause, 2, "NONE", 0, FALSE)

\* StallBreakdown::getDominantBottleneck
getDominantBottleneck(s) ==
    CASE getDominantCause(s) = "MEMORY_LATENCY" -> "memory_latency"
      [] getDominantCause(s) = "RAW_HAZARD" -> "data_dependency"
      [] getDominantCause(s) = "FU_CONTENTION" -> "compute_bound"
      [] getDominantCause(s) = "PORT_CONTENTION" -> "memory_bandwidth"
      [] getDominantCause(s) = "CONTROL_FLOW" -> "control_flow"
      [] getDominantCause(s) = "DMA_PENDING" -> "dma"
      [] getDominantCause(s) = "RESOURCE_LIMIT" -> "resource_limit"
      [] OTHER -> "none"

\* recordFUBusy that counts the busy cycles and no operation (faulty variant).
recordFUBusyNoOperation(s, type, start_cycle, end_cycle) ==
    [s EXCEPT !.summary.fu_utilization.by_type[type].total_busy_cycles =
                  @ + (end_cycle - start_cycle),
              !.summary.fu_utilization.total_fu_busy_cycles =
                  @ + (end_cycle - start_cycle)]

\* HWStatistics::recordFUBusy, its counters
recordFUBusy(s, type, start_cycle, end_cycle) ==
    [s EXCEPT !.summary.fu_utilization.by_type[type].total_busy_cycles =
                  @ + (end_cycle - start_cycle),
              !.summary.fu_utilization.by_type[type].total_operations = @ + 1,
              !.summary.fu_utilization.total_fu_busy_cycles =
                  @ + (end_cycle - start_cycle)]

\* HWStatistics::collectFUStats of the enhanced engine, its static counts:
\* static_usage maps some FU types to their number of units.
collectFUStats(s, static_usage) ==
    [s EXCEPT !.summary.static_count =
                  [t \in DOMAIN @ |->
                      IF t \in DOMAIN static_usage THEN static_usage[t]
                      ELSE @[t]]]

\* HWStatistics::collectRegisterStats, its counters
collectRegisterStats(s, total, reads, writes) ==
    [s EXCEPT !.summary.registers =
                  [total |-> total, reads |-> reads, writes |-> writes]]

\* HWStatistics::collectMemoryStats, its sizes
collectMemoryStats(s, cache_kb, spm_kb) ==
    [s EXCEPT !.summary.memory =
                  [cache_size_kb |-> cache_kb, spm_size_kb |-> spm_kb]]

\* HWStatistics::recordMemoryRead, its access counters
recordMemoryRead(s, cache_hit, type) ==
    IF type = "CACHE_READ"
    THEN IF cache_hit
         THEN [s EXCEPT !.summary.memory_access.cache_read_hits = @ + 1]
         ELSE [s EXCEPT !.summary.memory_access.cache_read_misses = @ + 1]
    ELSE IF type = "SPM_READ"
    THEN [s EXCEPT !.summary.memory_access.spm_reads = @ + 1]
    ELSE s

\* HWStatistics::recordMemoryWrite, its access counters
recordMemoryWrite(s, cache_hit, type) ==
    IF type = "CACHE_WRITE"
    THEN IF cache_hit
         THEN [s EXCEPT !.summary.memory_access.cache_write_hits = @ + 1]
         ELSE [s EXCEPT !.summary.memory_access.cache_write_misses = @ + 1]
    ELSE IF type = "SPM_WRITE"
    THEN [s EXCEPT !.summary.memory_access.spm_writes = @ + 1]
    ELSE s

\* HWStatistics::collectPowerStats of either variant: r holds the ten values
\* handed in. The basic engine totals the FU and register blocks and keeps the
\* totals with the scratchpad and with the cache beside it.
collectPowerStats(s, r) ==
    LET fu_total == r.fu_leak + r.fu_dyn
        reg_total == r.reg_leak + r.reg_dyn
        spm_total == r.spm_leak + r.spm_read + r.spm_write
        cache_total == r.cache_leak + r.cache_read + r.cache_write
        blocks ==
            [s.summary.power EXCEPT
                !.fu_leakage = r.fu_leak, !.fu_dynamic = r.fu_dyn,
                !.fu_total = fu_total,
                !.reg_leakage = r.reg_leak, !.reg_dynamic = r.reg_dyn,
                !.reg_total = reg_total,
                !.spm_leakage = r.spm_leak, !.spm_read_dynamic = r.spm_read,
                !.spm_write_dynamic = r.spm_write, !.spm_total = spm_total,
                !.cache_leakage = r.cache_leak,
                !.cache_read_dynamic = r.cache_read,
                !.cache_write_dynamic = r.cache_write,
                !.cache_total = cache_total]
    IN  IF s.variant = "basic"
        THEN [s EXCEPT !.summary.power =
                 [blocks EXCEPT
                     !.total_power = fu_total + reg_total,
                     !.acc_spm_total = fu_total + reg_total + spm_total,
                     !.acc_cache_total = fu_total + reg_total + cache_total]]
        ELSE [s EXCEPT !.summary.power =
                 [blocks EXCEPT
                     !.total_power =
                         fu_total + reg_total + spm_total + cache_total]]

\* HWStatistics::unitCorrections, its power part: the basic engine totals the
\* blocks again, the enhanced one does nothing.
unitCorrections(s) ==
    IF s.variant = "basic"
    THEN LET p == s.summary.power
             fu_total == p.fu_leakage + p.fu_dynamic
             reg_total == p.reg_leakage + p.reg_dynamic
             spm_total ==
                 p.spm_leakage + p.spm_read_dynamic + p.spm_write_dynamic
             cache_total ==
                 p.cache_leakage + p.cache_read_dynamic
                     + p.cache_write_dynamic
         IN  [s EXCEPT !.summary.power =
                 [p EXCEPT
                     !.fu_total = fu_total, !.reg_total = reg_total,
                     !.spm_total = spm_total, !.cache_total = cache_total,
                     !.total_power = fu_total + reg_total,
                     !.acc_spm_total = fu_total + reg_total + spm_total,
                     !.acc_cache_total = fu_total + reg_total + cache_total]]
    ELSE s

\* The body of calculatePowerWithActivity on summary sm with coefficients cfg,
\* the FU sums starting from fu_leakage0 and fu_dynamic0 (the source sets both
\* to 0.0 first); the result is the PowerStats left.
PowerWithActivity(sm, cfg, fu_leakage0, fu_dynamic0) ==
    LET fu_leakage ==
            fu_leakage0
                + SumOver([t \in Range(FUType) |->
                               sm.static_count[t]
                                   * cfg.fu_coeffs[t].leakage_mw],
                          FUType, Len(FUType))
        fu_dynamic ==
            fu_dynamic0
                + SumOver([t \in Range(FUType) |->
                               sm.fu_utilization.by_type[t].total_operations
                                   * (cfg.fu_coeffs[t].dynamic_read_mw
                                          + cfg.fu_coeffs[t].dynamic_write_mw)],
                          FUType, Len(FUType))
        fu_total == fu_leakage + fu_dynamic
        reg_leakage == sm.registers.total * 32 * cfg.reg_leakage_per_bit_mw
        reg_dynamic ==
            sm.registers.reads * cfg.reg_dynamic_read_mw
                + sm.registers.writes * cfg.reg_dynamic_write_mw
        reg_total == reg_leakage + reg_dynamic
        spm_leakage == sm.memory.spm_size_kb * cfg.spm_leakage_per_kb_mw
        spm_read_dynamic ==
            sm.memory_access.spm_reads * cfg.spm_read_dynamic_per_access_mw
        spm_write_dynamic ==
            sm.memory_access.spm_writes * cfg.spm_write_dynamic_per_access_mw
        spm_total == spm_leakage + spm_read_dynamic + spm_write_dynamic
        cache_reads ==
            sm.memory_access.cache_read_hits
                + sm.memory_access.cache_read_misses
        cache_writes ==
            sm.memory_access.cache_write_hits
                + sm.memory_access.cache_write_misses
        cache_leakage == sm.memory.cache_size_kb * cfg.cache_leakage_per_kb_mw
        cache_read_dynamic ==
            cache_reads * cfg.cache_read_dynamic_per_access_mw
        cache_write_dynamic ==
            cache_writes * cfg.cache_write_dynamic_per_access_mw
        cache_total == cache_leakage + cache_read_dynamic + cache_write_dynamic
        total_power == fu_total + reg_total + spm_total + cache_total
        runtime_ns == sm.total_cycles * sm.clock_period_ns
    IN  [sm.power EXCEPT
            !.fu_leakage = fu_leakage, !.fu_dynamic = fu_dynamic,
            !.fu_total = fu_total,
            !.reg_leakage = reg_leakage, !.reg_dynamic = reg_dynamic,
            !.reg_total = reg_total,
            !.spm_leakage = spm_leakage,
            !.spm_read_dynamic = spm_read_dynamic,
            !.spm_write_dynamic = spm_write_dynamic,
            !.spm_total = spm_total,
            !.cache_leakage = cache_leakage,
            !.cache_read_dynamic = cache_read_dynamic,
            !.cache_write_dynamic = cache_write_dynamic,
            !.cache_total = cache_total,
            !.total_power = total_power,
            !.total_energy_nj =
                (total_power * runtime_ns * NanojouleParts) \div 1000000,
            !.fu_energy_nj =
                (fu_total * runtime_ns * NanojouleParts) \div 1000000,
            !.mem_energy_nj =
                ((spm_total + cache_total) * runtime_ns * NanojouleParts)
                    \div 1000000,
            !.reg_energy_nj =
                (reg_total * runtime_ns * NanojouleParts) \div 1000000]

\* calculatePowerWithActivity that adds the FU sums to the stored ones (faulty
\* variant).
calculatePowerAccumulating(s, cfg) ==
    [s EXCEPT !.summary.power =
        PowerWithActivity(s.summary, cfg, s.summary.power.fu_leakage,
                          s.summary.power.fu_dynamic)]

\* calculatePowerWithActivity that leaves the write part out of the scratchpad
\* total (faulty variant).
calculatePowerNoSpmWrite(s, cfg) ==
    [s EXCEPT !.summary.power =
        [PowerWithActivity(s.summary, cfg, 0, 0) EXCEPT
            !.spm_total = @ - PowerWithActivity(s.summary, cfg, 0, 0)
                                  .spm_write_dynamic]]

\* HWStatistics::calculatePowerWithActivity
calculatePowerWithActivity(s, cfg) ==
    [s EXCEPT !.summary.power = PowerWithActivity(s.summary, cfg, 0, 0)]

\* ---------------------------------------- the statistics engine's state machine

\* Whether the windows of s hold no recorded snapshot and recording is at the
\* start of the first window.
WindowsEmpty(s) ==
    /\ \A b \in 1 .. Len(s.hw_buffer_list) :
           \A i \in 1 .. Len(s.hw_buffer_list[b]) :
               s.hw_buffer_list[b][i] = NoStats
    /\ s.hw_buffer = 1
    /\ s.cycle_buffer = 1
    /\ s.current_buffer_index = 0

\* The size of each window, in order.
WindowSizes(list) == [b \in 1 .. Len(list) |-> Len(list[b])]

\* What lastStat records of a call op that left the engine as s.
StatCall(op, s) ==
    [op |-> op, wrote |-> s.wrote, sizes |-> WindowSizes(hw_buffer_list),
     events |-> summary.stall_events, open |-> openStalls,
     again |-> op = "calculatePowerWithActivity" /\ lastStat.op = op]

\* The engine's fields after a call that left it as s.
StatsBecomes(s) ==
    /\ hw_buffer_list' = s.hw_buffer_list
    /\ hw_buffer' = s.hw_buffer
    /\ cycle_buffer' = s.cycle_buffer
    /\ current_buffer_index' = s.current_buffer_index
    /\ current_cycle_stats' = s.current_cycle_stats
    /\ summary' = s.summary

\* The engine as s, newly constructed.
StatsStartAs(s) ==
    /\ variant = s.variant
    /\ cycle_tracking = s.cycle_tracking
    /\ stat_buffer_size = s.stat_buffer_size
    /\ hw_buffer_list = s.hw_buffer_list
    /\ hw_buffer = s.hw_buffer
    /\ cycle_buffer = s.cycle_buffer
    /\ current_buffer_index = s.current_buffer_index
    /\ current_cycle_stats = s.current_cycle_stats
    /\ summary = s.summary
    /\ recorded = <<>>
    /\ rotations = 0
    /\ startedEmpty = TRUE
    /\ closedStreaks = 0
    /\ openStalls = 0
    /\ longestRun = 0
    /\ busyCalls = [t \in Range(FUType) |-> 0]
    /\ power_area_config = DefaultCoefficients
    /\ lastStat = [op |-> "construct", wrote |-> NoWrite,
                   sizes |-> WindowSizes(s.hw_buffer_list),
                   events |-> 0, open |-> 0, again |-> FALSE]

\* HWStatistics(params) of either variant, with or without cycle tracking and
\* a window capacity of at least one snapshot.
InitStat ==
    \E v \in {"basic", "enhanced"}, tracking \in BOOLEAN,
       K \in 1 .. MaxBufSize :
        StatsStartAs(HWStatistics(v, tracking, K))

\* The engine while another part is looked at: constructed, left alone.
IdleStat == StatsStartAs(HWStatistics("enhanced", FALSE, 1))

\* recordCycleStats(stats) is called.
RecordCycleStats ==
    \E stats \in Snapshots :
        /\ Len(recorded) < MaxRecords
        /\ CountStored(hw_buffer_list, 1) < 2 * MaxRecords
        /\ \E s \in {recordCycleStats(StatsState, stats)} :
              /\ StatsBecomes(s)
              /\ rotations' = s.rotations
              /\ lastStat' = StatCall("recordCycleStats", s)
        /\ recorded' = Append(recorded, stats)
        /\ UNCHANGED <<variant, cycle_tracking, stat_buffer_size,
                       power_area_config, startedEmpty, closedStreaks,
                       openStalls, longestRun, busyCalls, otherThanStat>>

\* clearStats() is called.
ClearStats ==
    /\ \E s \in {clearStats(StatsState)} :
          /\ StatsBecomes(s)
          /\ startedEmpty' = WindowsEmpty(s)
          /\ lastStat' = StatCall("clearStats", s)
    /\ recorded' = <<>>
    /\ rotations' = 0
    /\ closedStreaks' = 0
    /\ openStalls' = 0
    /\ longestRun' = 0
    /\ busyCalls' = [t \in DOMAIN busyCalls |-> 0]
    /\ UNCHANGED <<variant, cycle_tracking, stat_buffer_size,
                   power_area_config, otherThanStat>>

\* collectPerformanceStats(..., cycles, stalls) is called.
CollectPerformanceStats ==
    \E clock_period \in {2}, cycles \in {2}, stalls \in {1} :
        /\ \E s \in {collectPerformanceStats(StatsState, clock_period,
                                                cycles, stalls)} :
              /\ StatsBecomes(s)
              /\ lastStat' = StatCall("collectPerformanceStats", s)
        /\ UNCHANGED <<variant, cycle_tracking, stat_buffer_size,
                       power_area_config, recorded, rotations, startedEmpty,
                       closedStreaks, openStalls, longestRun, busyCalls,
                       otherThanStat>>

\* recordStallCause(cause) is called (the enhanced engine only has it).
RecordStallCause ==
    \E cause \in TriedCauses :
        /\ variant = "enhanced"
        /\ summary.total_stall_cycles < MaxStalls
        /\ \E s \in {recordStallCause(StatsState, cause)} :
              /\ StatsBecomes(s)
              /\ lastStat' = StatCall("recordStallCause", s)
        /\ openStalls' = openStalls + 1
        /\ longestRun' = Max(longestRun, openStalls + 1)
        /\ UNCHANGED <<variant, cycle_tracking, stat_buffer_size,
                       power_area_config, recorded, rotations, startedEmpty,
                       closedStreaks, busyCalls, otherThanStat>>

\* recordNoStall() is called (the enhanced engine only has it).
RecordNoStall ==
    /\ variant = "enhanced"
    /\ \E s \in {recordNoStall(StatsState)} :
          /\ StatsBecomes(s)
          /\ lastStat' = StatCall("recordNoStall", s)
    /\ closedStreaks' = IF openStalls > 0 THEN closedStreaks + 1
                        ELSE closedStreaks
    /\ openStalls' = 0
    /\ UNCHANGED <<variant, cycle_tracking, stat_buffer_size,
                   power_area_config, recorded, rotations, startedEmpty,
                   longestRun, busyCalls, otherThanStat>>

NextStat ==
    \/ RecordCycleStats
    \/ ClearStats
    \/ CollectPerformanceStats

\* ------------------------------------ stall, FU and power recording calls

\* What a call that neither constructs nor resets leaves alone of the engine.
statFixed == <<variant, cycle_tracking, stat_buffer_size, recorded, rotations,
               startedEmpty>>

\* The engine becomes s through the call op.
StatStep(op, s) == StatsBecomes(s) /\ lastStat' = StatCall(op, s)

\* recordFUContention(type) is called.
RecordFUContention ==
    \E type \in TriedFUs :
        /\ variant = "enhanced"
        /\ summary.fu_utilization.total_contention_stalls < MaxContentions
        /\ \E s \in {recordFUContention(StatsState, type)} :
              StatStep("recordFUContention", s)
        /\ UNCHANGED <<statFixed, power_area_config, closedStreaks,
                       openStalls, longestRun, busyCalls, otherThanStat>>

\* recordFUStall(type) is called; it calls recordStallCause.
RecordFUStall ==
    \E type \in TriedFUs :
        /\ variant = "enhanced"
        /\ summary.fu_utilization.total_contention_stalls < MaxContentions
        /\ summary.total_stall_cycles < MaxStalls
        /\ \E s \in {recordFUStall(StatsState, type)} :
              StatStep("recordFUStall", s)
        /\ openStalls' = openStalls + 1
        /\ longestRun' = Max(longestRun, openStalls + 1)
        /\ UNCHANGED <<statFixed, power_area_config, closedStreaks,
                       busyCalls, otherThanStat>>

\* recordPortContention(is_read) is called.
RecordPortContention ==
    \E is_read \in BOOLEAN :
        /\ variant = "enhanced"
        /\ summary.read_port_stalls + summary.write_port_stalls
               < MaxContentions
        /\ \E s \in {recordPortContention(StatsState, is_read)} :
              StatStep("recordPortContention", s)
        /\ UNCHANGED <<statFixed, power_area_config, closedStreaks,
                       openStalls, longestRun, busyCalls, otherThanStat>>

\* getDominantCause() or getDominantBottleneck() is called; both are const.
GetDominant ==
    \E getter \in {"getDominantCause", "getDominantBottleneck"} :
        /\ variant = "enhanced"
        /\ StatStep(getter, StatsState)
        /\ UNCHANGED <<statFixed, power_area_config, closedStreaks,
                       openStalls, longestRun, busyCalls, otherThanStat>>

NextStall ==
    \/ RecordStallCause
    \/ RecordNoStall
    \/ RecordFUContention
    \/ RecordFUStall
    \/ RecordPortContention
    \/ GetDominant
    \/ ClearStats

\* recordFUBusy(type, instance_id, start_cycle, end_cycle) is called.
RecordFUBusy ==
    \E type \in TriedFUs, start_cycle \in {0}, end_cycle \in {1} :
        /\ variant = "enhanced"
        /\ SumOver(busyCalls, FUType, Len(FUType)) < MaxBusy
        /\ \E s \in {recordFUBusy(StatsState, type, start_cycle,
                                  end_cycle)} :
              StatStep("recordFUBusy", s)
        /\ busyCalls' = [busyCalls EXCEPT ![type] = @ + 1]
        /\ UNCHANGED <<statFixed, power_area_config, closedStreaks,
                       openStalls, longestRun, otherThanStat>>

\* The static FU counts handed to collectFUStats: one integer adder and two
\* multipliers.
StaticUsages ==
    {[t \in TriedFUs |-> IF t = "FU_TYPE_INT_ADD_SUB" THEN 1 ELSE 2]}

\* collectFUStats(static_usage, ...) is called on the enhanced engine.
CollectFUStats ==
    \E static_usage \in StaticUsages :
        /\ variant = "enhanced"
        /\ \E s \in {collectFUStats(StatsState, static_usage)} :
              StatStep("collectFUStats", s)
        /\ UNCHANGED <<statFixed, power_area_config, closedStreaks,
                       openStalls, longestRun, busyCalls, otherThanStat>>

\* collectRegisterStats(total, ..., reads, writes) is called on the enhanced
\* engine.
CollectRegisterStats ==
    \E total \in {1}, reads \in {2}, writes \in {1} :
        /\ variant = "enhanced"
        /\ \E s \in {collectRegisterStats(StatsState, total, reads,
                                          writes)} :
              StatStep("collectRegisterStats", s)
        /\ UNCHANGED <<statFixed, power_area_config, closedStreaks,
                       openStalls, longestRun, busyCalls, otherThanStat>>

\* collectMemoryStats(cache_kb, ..., spm_kb, ...) is called on the enhanced
\* engine.
CollectMemoryStats ==
    \E cache_kb \in {1}, spm_kb \in {2} :
        /\ variant = "enhanced"
        /\ \E s \in {collectMemoryStats(StatsState, cache_kb, spm_kb)} :
              StatStep("collectMemoryStats", s)
        /\ UNCHANGED <<statFixed, power_area_config, closedStreaks,
                       openStalls, longestRun, busyCalls, otherThanStat>>

\* The memory accesses recorded since the last reset.
Accesses ==
    summary.memory_access.cache_read_hits
        + summary.memory_access.cache_read_misses
        + summary.memory_access.cache_write_hits
        + summary.memory_access.cache_write_misses
        + summary.memory_access.spm_reads + summary.memory_access.spm_writes

\* recordMemoryRead(addr, bytes, latency, cache_hit, type) is called.
RecordMemoryRead ==
    \E kind \in {<<TRUE, "CACHE_READ">>} :
        /\ variant = "enhanced"
        /\ Accesses < MaxAccesses
        /\ \E s \in {recordMemoryRead(StatsState, kind[1], kind[2])} :
              StatStep("recordMemoryRead", s)
        /\ UNCHANGED <<statFixed, power_area_config, closedStreaks,
                       openStalls, longestRun, busyCalls, otherThanStat>>

\* recordMemoryWrite(addr, bytes, latency, cache_hit, type) is called.
RecordMemoryWrite ==
    \E kind \in {<<FALSE, "SPM_WRITE">>} :
        /\ variant = "enhanced"
        /\ Accesses < MaxAccesses
        /\ \E s \in {recordMemoryWrite(StatsState, kind[1], kind[2])} :
              StatStep("recordMemoryWrite", s)
        /\ UNCHANGED <<statFixed, power_area_config, closedStreaks,
                       openStalls, longestRun, busyCalls, otherThanStat>>

\* A caller changes the coefficients through getPowerAreaConfig(), before
\* any other call.
SetPowerAreaConfig ==
    \E cfg \in Coefficients :
        /\ variant = "enhanced"
        /\ lastStat.op = "construct"
        /\ cfg # power_area_config
        /\ power_area_config' = cfg
        /\ StatStep("getPowerAreaConfig", StatsState)
        /\ UNCHANGED <<statFixed, closedStreaks, openStalls, longestRun,
                       busyCalls, otherThanStat>>

\* The power values handed to collectPowerStats.
PowerReadings ==
    {[fu_leak |-> 1, fu_dyn |-> 2, reg_leak |-> 1, reg_dyn |-> 3,
      spm_leak |-> 2, spm_read |-> 1, spm_write |-> 1,
      cache_leak |-> 3, cache_read |-> 1, cache_write |-> 2]}

\* collectPowerStats(...) is called.
CollectPowerStats ==
    \E r \in PowerReadings :
        /\ \E s \in {collectPowerStats(StatsState, r)} :
              StatStep("collectPowerStats", s)
        /\ UNCHANGED <<statFixed, power_area_config, closedStreaks,
                       openStalls, longestRun, busyCalls, otherThanStat>>

\* unitCorrections() is called.
UnitCorrections ==
    /\ \E s \in {unitCorrections(StatsState)} :
          StatStep("unitCorrections", s)
    /\ UNCHANGED <<statFixed, power_area_config, closedStreaks, openStalls,
                   longestRun, busyCalls, otherThanStat>>

\* calculatePowerWithActivity() is called (the enhanced engine only has it).
CalculatePowerWithActivity ==
    /\ variant = "enhanced"
    /\ \E s \in {calculatePowerWithActivity(StatsState, power_area_config)} :
          StatStep("calculatePowerWithActivity", s)
    /\ UNCHANGED <<statFixed, power_area_config, closedStreaks, openStalls,
                   longestRun, busyCalls, otherThanStat>>

NextPower ==
    \/ RecordFUBusy
    \/ CollectFUStats
    \/ CollectRegisterStats
    \/ CollectMemoryStats
    \/ RecordMemoryRead
    \/ RecordMemoryWrite
    \/ CollectPerformanceStats
    \/ SetPowerAreaConfig
    \/ CollectPowerStats
    \/ UnitCorrections
    \/ CalculatePowerWithActivity
    \/ ClearStats

\* HWStatistics(params) of either variant without cycle tracking.
InitPower ==
    \E v \in {"basic", "enhanced"} : StatsStartAs(HWStatistics(v, FALSE, 1))

\* ================================================================ GUIPublisher

\* GUIPublisher::publishInterval as the constructor sets it
publishInterval == 100

\* uint64_t arithmetic on cycle numbers, at the model's width.
WrapCycle(x) == x % Pow2(CycleBits)

\* The cycle numbers handed to publishCycleUpdate.
CycleInputs ==
    {0, publishInterval - 1, publishInterval, publishInterval + 50,
     Pow2(CycleBits) - 1}

\* The publish* methods other than publishCycleUpdate, by the type of the
\* message they build; all of them have the same shape.
EventKinds ==
    {"simulation_start", "simulation_end", "queue_state", "fu_state",
     "instruction_issue", "instruction_complete", "stall_event",
     "stats_update", "heartbeat"}

\* What a call that builds no message leaves in msg.
NoMessage == [type |-> "none", cycle |-> 0]

\* GUIPublisher(addr, enable), in a build with (zmq) or without HAVE_ZEROMQ.
\* socket is whether impl->socket holds a socket. The last four fields
\* describe one call: its return value, whether a message reached
\* socket->send, whether the send failed, and whether an exception left the
\* call.
GUIPublisher(zmq, enable) ==
    [zmq |-> zmq, enabled |-> enable, initialized |-> FALSE,
     socket |-> FALSE, lastPublishCycle |-> 0,
     ret |-> FALSE, handed |-> FALSE, sendFailed |-> FALSE,
     escaped |-> FALSE, msg |-> NoMessage]

\* The publisher as its operations see it.
GuiState ==
    [zmq |-> gui.zmq, enabled |-> gui.enabled,
     initialized |-> gui.initialized, socket |-> gui.socket,
     lastPublishCycle |-> gui.lastPublishCycle,
     ret |-> FALSE, handed |-> FALSE, sendFailed |-> FALSE,
     escaped |-> FALSE, msg |-> NoMessage]

\* GUIPublisher::isEnabled
isEnabled(g) == g.enabled /\ g.initialized

\* GUIPublisher::setEnabled
setEnabled(g, enable) == [g EXCEPT !.enabled = enable]

\* GUIPublisher::initialize. outcome is how far the ZeroMQ calls get: "ok",
\* "no_socket" (making the context or the socket throws) or "no_bind"
\* (setsockopt or bind throws, the socket stays in impl).
initialize(g, outcome) ==
    IF ~g.zmq THEN [g EXCEPT !.enabled = FALSE, !.ret = FALSE]
    ELSE IF g.initialized \/ ~g.enabled THEN [g EXCEPT !.ret = g.initialized]
    ELSE IF outcome = "ok"
    THEN [g EXCEPT !.socket = TRUE, !.initialized = TRUE, !.ret = TRUE]
    ELSE IF outcome = "no_bind"
    THEN [g EXCEPT !.socket = TRUE, !.initialized = FALSE, !.ret = FALSE]
    ELSE [g EXCEPT !.initialized = FALSE, !.ret = FALSE]

\* GUIPublisher::shutdown
shutdown(g) ==
    IF g.zmq THEN [g EXCEPT !.socket = FALSE, !.initialized = FALSE]
    ELSE g

\* sendMessage without the catch (faulty variant).
sendMessageNoCatch(g, m, sendOk) ==
    IF ~g.zmq \/ ~isEnabled(g) \/ ~g.socket THEN g
    ELSE [g EXCEPT !.handed = TRUE, !.msg = m, !.sendFailed = ~sendOk,
                   !.escaped = ~sendOk]

\* GUIPublisher::sendMessage: the message goes to socket->send, whose
\* zmq::error_t is caught and ignored.
sendMessage(g, m, sendOk) ==
    IF ~g.zmq \/ ~isEnabled(g) \/ ~g.socket THEN g
    ELSE [g EXCEPT !.handed = TRUE, !.msg = m, !.sendFailed = ~sendOk]

\* publishSimulationStart, publishSimulationEnd, publishQueueState,
\* publishFUState, publishInstructionIssue, publishInstructionComplete,
\* publishStallEvent, publishStatsUpdate, publishHeartbeat
publishEvent(g, kind, cycle, sendOk) ==
    IF ~isEnabled(g) THEN g
    ELSE sendMessage(g, [type |-> kind, cycle |-> cycle], sendOk)

\* publishCycleUpdate that compares the cycle numbers as signed integers
\* (faulty variant).
publishCycleUpdateSigned(g, cycle, sendOk) ==
    IF ~isEnabled(g) THEN g
    ELSE IF cycle - g.lastPublishCycle < publishInterval THEN g
    ELSE sendMessage([g EXCEPT !.lastPublishCycle = cycle],
                     [type |-> "cycle_update", cycle |-> cycle], sendOk)

\* GUIPublisher::publishCycleUpdate
publishCycleUpdate(g, cycle, sendOk) ==
    IF ~isEnabled(g) THEN g
    ELSE IF WrapCycle(cycle - g.lastPublishCycle) < publishInterval THEN g
    ELSE sendMessage([g EXCEPT !.lastPublishCycle = cycle],
                     [type |-> "cycle_update", cycle |-> cycle], sendOk)

\* ------------------------------------------- the publisher's state machine

\* The members of publisher g.
Members(g) ==
    [zmq |-> g.zmq, enabled |-> g.enabled, initialized |-> g.initialized,
     socket |-> g.socket, lastPublishCycle |-> g.lastPublishCycle]

\* What lastGui records of a call op that left the publisher as g.
GuiCall(op, g) ==
    [op |-> op, before |-> gui, ret |-> g.ret, handed |-> g.handed,
     sendFailed |-> g.sendFailed, escaped |-> g.escaped, msg |-> g.msg]

\* The last two cycle_update cycles, after a call that left the publisher
\* as g.
EmittedAfter(g) ==
    IF g.handed /\ g.msg.type = "cycle_update"
    THEN IF emitted = <<>> THEN <<g.msg.cycle>>
         ELSE <<emitted[Len(emitted)], g.msg.cycle>>
    ELSE emitted

\* The publisher after a call op that left it as g.
GuiStep(op, g) ==
    /\ gui' = Members(g)
    /\ emitted' = EmittedAfter(g)
    /\ lastGui' = GuiCall(op, g)

\* The publisher as g, newly constructed.
GuiStartAs(g) ==
    /\ gui = Members(g)
    /\ emitted = <<>>
    /\ lastGui = [op |-> "construct", before |-> Members(g), ret |-> FALSE,
                  handed |-> FALSE, sendFailed |-> FALSE,
                  escaped |-> FALSE, msg |-> NoMessage]

\* GUIPublisher(addr, enable), in either build.
InitGui ==
    \E zmq \in BOOLEAN, enable \in BOOLEAN :
        GuiStartAs(GUIPublisher(zmq, enable))

\* The publisher getGUIPublisher() makes when none was set up: disabled.
IdleGui == GuiStartAs(GUIPublisher(TRUE, FALSE))

\* initialize() is called.
Initialize ==
    \E outcome \in {"ok", "no_socket", "no_bind"} :
        /\ GuiStep("initialize", initialize(GuiState, outcome))
        /\ UNCHANGED otherThanGui

\* shutdown() is called.
Shutdown ==
    /\ GuiStep("shutdown", shutdown(GuiState))
    /\ UNCHANGED otherThanGui

\* setEnabled(enable) is called.
SetEnabled ==
    \E enable \in BOOLEAN :
        /\ GuiStep("setEnabled", setEnabled(GuiState, enable))
        /\ UNCHANGED otherThanGui

\* One of the publish* methods that are not rate limited is called.
PublishEvent ==
    \E kind \in EventKinds, sendOk \in BOOLEAN :
        /\ GuiStep("publishEvent", publishEvent(GuiState, kind, 0, sendOk))
        /\ UNCHANGED otherThanGui

\* publishCycleUpdate(cycle) is called.
PublishCycleUpdate ==
    \E cycle \in CycleInputs, sendOk \in BOOLEAN :
        /\ GuiStep("publishCycleUpdate",
                   publishCycleUpdate(GuiState, cycle, sendOk))
        /\ UNCHANGED otherThanGui

NextGui ==
    \/ Initialize
    \/ Shutdown
    \/ SetEnabled
    \/ PublishEvent
    \/ PublishCycleUpdate

\* ================================================ PowerAreaCoefficients files
\* A double is the whole number of its millionths; a text is the sequence of
\* its pieces: single characters, and words and numerals taken whole.

Sp == [kind |-> "char", text |-> " ", num |-> 0]
Quote == [kind |-> "char", text |-> "\"", num |-> 0]
Comma == [kind |-> "char", text |-> ",", num |-> 0]
Colon == [kind |-> "char", text |-> ":", num |-> 0]
Brace == [kind |-> "char", text |-> "{", num |-> 0]
Word(w) == [kind |-> "word", text |-> w, num |-> 0]
Numeral(n) == [kind |-> "numeral", text |-> "", num |-> n]

\* operator<<(double) at the stream's default precision: the value rounded to
\* six significant digits.
RECURSIVE RoundTo6(_, _)
RoundTo6(x, p) ==
    IF x \div p < 1000000 THEN ((x + p \div 2) \div p) * p
    ELSE RoundTo6(x, p * 10)

\* file << d, for a double d
Print6(d) == Numeral(RoundTo6(d, 1))

\* s.erase(std::remove(s.begin(), s.end(), c), s.end()), for the pieces cs
Remove(s, cs) == SelectSeq(s, LAMBDA p : p \notin cs)

\* line.find(c): the position of the first c, 0 when there is none
Find(line, c) ==
    IF \E i \in 1 .. Len(line) : line[i] = c
    THEN CHOOSE i \in 1 .. Len(line) :
             line[i] = c /\ \A j \in 1 .. i - 1 : line[j] # c
    ELSE 0

\* std::stod(value): leading whitespace skipped, then a numeral or
\* std::invalid_argument.
RECURSIVE stod(_)
stod(value) ==
    IF value = <<>> THEN [ok |-> FALSE, d |-> 0]
    ELSE IF Head(value) = Sp THEN stod(Tail(value))
    ELSE IF Head(value).kind = "numeral"
    THEN [ok |-> TRUE, d |-> Head(value).num]
    ELSE [ok |-> FALSE, d |-> 0]

\* A PowerAreaCoefficients object as its default member initialisers leave
\* it; one area or leakage coefficient stands for each block's four, and the
\* FU leakage is in billionths of a milliwatt.
NewCoefficients ==
    [technology_node |-> <<Word("45nm")>>,
     voltage |-> 1000000,
     temperature_c |-> 25000000,
     reg_area_per_bit_um2 |-> 5981433,
     spm_leakage_per_kb_mw |-> 500000,
     cache_leakage_per_kb_mw |-> 800000,
     fu_leakage_mw |-> [t \in Range(FUType) |-> 0]]

\* PowerAreaCoefficients::setDefaults
setDefaults(c) ==
    [technology_node |-> <<Word("45nm")>>,
     voltage |-> 1000000,
     temperature_c |-> 25000000,
     reg_area_per_bit_um2 |-> 5981433,
     spm_leakage_per_kb_mw |-> 500000,
     cache_leakage_per_kb_mw |-> 800000,
     fu_leakage_mw |->
         [t \in Range(FUType) |->
             IF t = "FU_TYPE_INT_ADD_SUB" THEN 2380803
             ELSE IF t = "FU_TYPE_INT_MUL_DIV" THEN 48176830
             ELSE c.fu_leakage_mw[t]]]

\* The line `"key": value` of saveToFile, indented, with or without a comma.
FieldLine(key, value, comma) ==
    <<Sp, Sp, Quote, Word(key), Quote, Colon, Sp>> \o value
        \o (IF comma THEN <<Comma>> ELSE <<>>)

\* The lines saveToFile writes for the functional units from the i-th on.
RECURSIVE FULines(_, _)
FULines(c, i) ==
    IF i > Len(FUType) THEN <<>>
    ELSE <<FieldLine(FUType[i], <<Brace>>, FALSE),
           FieldLine("leakage_mw", <<Print6(c.fu_leakage_mw[FUType[i]])>>,
                     FALSE),
           <<Sp, Word("}")>>
               \o (IF i < Len(FUType) THEN <<Comma>> ELSE <<>>)>>
         \o FULines(c, i + 1)

\* The text saveToFile writes for c.
SavedLines(c) ==
    <<(<<Brace>>),
      FieldLine("technology_node",
                <<Quote>> \o c.technology_node \o <<Quote>>, TRUE),
      FieldLine("voltage", <<Print6(c.voltage)>>, TRUE),
      FieldLine("temperature_c", <<Print6(c.temperature_c)>>, TRUE),
      FieldLine("register", <<Brace>>, FALSE),
      FieldLine("area_per_bit_um2", <<Print6(c.reg_area_per_bit_um2)>>,
                FALSE),
      <<Sp, Word("}"), Comma>>,
      FieldLine("spm", <<Brace>>, FALSE),
      FieldLine("leakage_per_kb_mw", <<Print6(c.spm_leakage_per_kb_mw)>>,
                FALSE),
      <<Sp, Word("}"), Comma>>,
      FieldLine("cache", <<Brace>>, FALSE),
      FieldLine("leakage_per_kb_mw", <<Print6(c.cache_leakage_per_kb_mw)>>,
                FALSE),
      <<Sp, Word("}"), Comma>>,
      FieldLine("functional_units", <<Brace>>, FALSE)>>
     \o FULines(c, 1)
     \o <<(<<Sp, Word("}")>>), (<<Word("}")>>)>>

\* PowerAreaCoefficients::saveToFile: the file as the call leaves it, and the
\* value returned.
saveToFile(c, file) ==
    IF ~file.writable THEN [file |-> file, ret |-> FALSE]
    ELSE [file |-> [file EXCEPT !.exists = TRUE, !.lines = SavedLines(c)],
          ret |-> TRUE]

\* The body of loadFromFile's loop for one line.
parseLine(c, line) ==
    LET colon == Find(line, Colon)
    IN  IF colon = 0 THEN [c |-> c, threw |-> FALSE]
        ELSE
        LET key == Remove(SubSeq(line, 1, colon - 1), {Quote, Sp})
            value == Remove(SubSeq(line, colon + 1, Len(line)),
                            {Quote, Comma})
        IN  IF key = <<Word("technology_node")>>
            THEN [c |-> [c EXCEPT !.technology_node = value],
                  threw |-> FALSE]
            ELSE IF key = <<Word("voltage")>>
            THEN IF stod(value).ok
                 THEN [c |-> [c EXCEPT !.voltage = stod(value).d],
                       threw |-> FALSE]
                 ELSE [c |-> c, threw |-> TRUE]
            ELSE IF key = <<Word("temperature_c")>>
            THEN IF stod(value).ok
                 THEN [c |-> [c EXCEPT !.temperature_c = stod(value).d],
                       threw |-> FALSE]
                 ELSE [c |-> c, threw |-> TRUE]
            ELSE [c |-> c, threw |-> FALSE]

\* loadFromFile's loop over the lines from the i-th on.
RECURSIVE parseLines(_, _, _)
parseLines(c, lines, i) ==
    IF i > Len(lines) THEN [c |-> c, ret |-> TRUE, threw |-> FALSE]
    ELSE LET r == parseLine(c, lines[i])
         IN  IF r.threw THEN [c |-> r.c, ret |-> FALSE, threw |-> TRUE]
             ELSE parseLines(r.c, lines, i + 1)

\* loadFromFile that falls back to the defaults on anything it cannot read
\* (faulty variant).
loadFromFileOrDefaults(c, file) ==
    IF ~file.exists \/ parseLines(c, file.lines, 1).threw
    THEN [c |-> setDefaults(c), ret |-> FALSE, threw |-> FALSE]
    ELSE parseLines(c, file.lines, 1)

\* PowerAreaCoefficients::loadFromFile: the object as the call leaves it, the
\* value returned, and whether std::stod's exception left the call.
loadFromFile(c, file) ==
    IF ~file.exists
    THEN [c |-> setDefaults(c), ret |-> FALSE, threw |-> FALSE]
    ELSE parseLines(c, file.lines, 1)

\* --------------------------------------- the coefficient file's state machine

\* A table with every coefficient changed, none of more than six digits.
CustomCoefficients ==
    [technology_node |-> <<Word("28nm")>>,
     voltage |-> 900000,
     temperature_c |-> 85000000,
     reg_area_per_bit_um2 |-> 4000000,
     spm_leakage_per_kb_mw |-> 300000,
     cache_leakage_per_kb_mw |-> 600000,
     fu_leakage_mw |-> [t \in Range(FUType) |-> 1000000]]

\* The objects tried: a new one, the defaults, the changed table, and the
\* defaults at a voltage of seven significant digits.
CoefficientValues ==
    {NewCoefficients, setDefaults(NewCoefficients), CustomCoefficients,
     [setDefaults(NewCoefficients) EXCEPT !.voltage = 1234567]}

\* Files with malformed content: a numeric key with a word for a value, the
\* same after a well-formed line, and a line that is no key-value pair.
MalformedFiles ==
    {<<FieldLine("voltage", <<Word("high")>>, TRUE)>>,
     <<FieldLine("voltage", <<Numeral(2000000)>>, TRUE),
       FieldLine("temperature_c", <<Word("hot")>>, FALSE)>>,
     <<(<<Word("garbage")>>)>>}

\* The object as c and the file as f, nothing loaded or saved yet.
CoeffStartAs(c, f) ==
    /\ coefficients = c
    /\ configFile = f
    /\ lastCoeff = [op |-> "construct", fresh |-> FALSE, ret |-> FALSE,
                    threw |-> FALSE, fromSave |-> FALSE, saved |-> c]

\* An object, and a file that cannot be opened for reading or holds malformed
\* content.
InitCoeff ==
    \E c \in CoefficientValues :
        \/ \E w \in BOOLEAN :
              CoeffStartAs(c, [exists |-> FALSE, writable |-> w,
                               lines |-> <<>>])
        \/ \E m \in MalformedFiles :
              CoeffStartAs(c, [exists |-> TRUE, writable |-> TRUE,
                               lines |-> m])

\* The coefficients while another part is looked at: the defaults the
\* HWStatistics constructor sets, and no file.
IdleCoeff ==
    CoeffStartAs(setDefaults(NewCoefficients),
                 [exists |-> FALSE, writable |-> FALSE, lines |-> <<>>])

\* saveToFile(filename) is called on the object.
SaveToFile ==
    /\ Len(coefficients.technology_node) <= MaxNodeLength
    /\ \E r \in {saveToFile(coefficients, configFile)} :
          /\ configFile' = r.file
          /\ lastCoeff' = [op |-> "saveToFile", fresh |-> FALSE,
                           ret |-> r.ret, threw |-> FALSE,
                           fromSave |-> r.ret \/ lastCoeff.fromSave,
                           saved |-> IF r.ret THEN coefficients
                                     ELSE lastCoeff.saved]
    /\ UNCHANGED <<coefficients, otherThanCoeff>>

\* loadFromFile(filename) is called, on the object or on a new one.
LoadFromFile ==
    \E fresh \in BOOLEAN :
        /\ \E r \in {loadFromFile(IF fresh THEN NewCoefficients
                                     ELSE coefficients, configFile)} :
              /\ coefficients' = r.c
              /\ lastCoeff' = [lastCoeff EXCEPT !.op = "loadFromFile",
                                               !.fresh = fresh,
                                               !.ret = r.ret,
                                               !.threw = r.threw]
        /\ UNCHANGED <<configFile, otherThanCoeff>>

\* The caller sets the coefficients of the object.
SetCoefficients ==
    \E c \in CoefficientValues :
        /\ coefficients' = c
        /\ lastCoeff' = [lastCoeff EXCEPT !.op = "set", !.fresh = FALSE,
                                         !.ret = FALSE, !.threw = FALSE]
        /\ UNCHANGED <<configFile, otherThanCoeff>>

NextCoeff ==
    \/ SaveToFile
    \/ LoadFromFile
    \/ SetCoefficients

\* ============================================ HWStatistics: cycles and reports

\* updateHWStatsCycleStart: the basic engine records the current snapshot and
\* then resets it; the enhanced one resets it.
updateHWStatsCycleStart(s) ==
    IF s.variant = "basic"
    THEN clearStats(IF s.cycle_tracking
                    THEN recordCycleStats(s, s.current_cycle_stats)
                    ELSE s)
    ELSE [s EXCEPT !.current_cycle_stats = NoStats]

\* updateHWStatsCycleEnd that records nothing (faulty variant).
updateHWStatsCycleEndNoRecord(s, curr_cycle) ==
    [s EXCEPT !.current_cycle_stats.cycle = curr_cycle]

\* updateHWStatsCycleEnd(curr_cycle): the basic engine stamps the current
\* snapshot; the enhanced one stamps and records it.
updateHWStatsCycleEnd(s, curr_cycle) ==
    LET stamped == [s EXCEPT !.current_cycle_stats.cycle = curr_cycle]
    IN  IF s.variant = "basic" THEN stamped
        ELSE recordCycleStats(stamped, stamped.current_cycle_stats)

\* HWStatistics::toJSON(pretty): the report, as the fields of the summary it
\* prints; only the basic engine prints the cycle summary.
toJSON(s, pretty) ==
    [pretty |-> pretty,
     total_cycles |-> s.summary.total_cycles,
     stall_cycles |-> s.summary.stall_cycles,
     cycle_samples |-> IF s.variant = "basic"
                       THEN s.summary.cycle_summary.total_samples
                       ELSE 0]

\* HWStatistics::printSummary: the lines it prints.
printSummary(s) ==
    [total_cycles |-> s.summary.total_cycles,
     stall_cycles |-> s.summary.stall_cycles,
     cycle_samples |-> IF s.variant = "basic" /\ s.cycle_tracking
                       THEN s.summary.cycle_summary.total_samples
                       ELSE 0]

\* HWStatistics::printDetailed
printDetailed(s) == toJSON(s, TRUE)

\* The values of output_file tried: none, a file that can be opened for
\* writing, and one in a directory that does not exist.
OutputFiles == {"", "stats.json", "/nodir/stats.json"}

\* Whether std::ofstream opens the file of that name.
Openable(name) == name = "stats.json"

\* A report file that holds no report of this engine.
NoReport ==
    [pretty |-> FALSE, total_cycles |-> 0, stall_cycles |-> 0,
     cycle_samples |-> 0]

\* writeJSONFile that looks at output_statistics in both engines (faulty
\* variant of the enhanced engine, the basic engine's code).
writeJSONFileGated(s, p, file) ==
    IF ~p.output_statistics THEN [file |-> file, failed |-> FALSE]
    ELSE IF Openable(p.output_file)
    THEN [file |-> [exists |-> TRUE, old |-> FALSE,
                    report |-> toJSON(s, p.pretty_print)],
          failed |-> FALSE]
    ELSE [file |-> file, failed |-> TRUE]

\* HWStatistics::writeJSONFile with the parameters p: the file as the call
\* leaves it, and whether opening it failed. The basic engine returns early
\* without output_statistics, the enhanced one with an empty output_file.
writeJSONFile(s, p, file) ==
    IF (s.variant = "basic" /\ ~p.output_statistics)
       \/ (s.variant = "enhanced" /\ p.output_file = "")
    THEN [file |-> file, failed |-> FALSE]
    ELSE IF Openable(p.output_file)
    THEN [file |-> [exists |-> TRUE, old |-> FALSE,
                    report |-> toJSON(s, p.pretty_print)],
          failed |-> FALSE]
    ELSE [file |-> file, failed |-> TRUE]

\* HWStatistics::publishCycleToGUI(cycle), with the global publisher g: the
\* publisher as the call leaves it, and whether it was called.
publishCycleToGUI(s, p, g, cycle, sendOk) ==
    IF ~p.gui_stats_enabled THEN [s |-> s, g |-> g, called |-> FALSE]
    ELSE [s |-> s, g |-> publishEvent(g, "queue_state", cycle, sendOk),
          called |-> TRUE]

\* publishFinalToGUI that leaves the summary alone (faulty variant of the
\* basic engine, the enhanced engine's code).
publishFinalToGUIReadOnly(s, p, g, sendOk) ==
    IF ~p.gui_stats_enabled THEN [s |-> s, g |-> g, called |-> FALSE]
    ELSE [s |-> s,
          g |-> publishEvent(
                    publishEvent(g, "stats_update", s.summary.total_cycles,
                                 sendOk),
                    "simulation_end", s.summary.total_cycles, sendOk),
          called |-> TRUE]

\* HWStatistics::publishFinalToGUI: the basic engine stores the cycle summary
\* in the summary and publishes the report; the enhanced one publishes the
\* report and the end of the simulation.
publishFinalToGUI(s, p, g, sendOk) ==
    IF ~p.gui_stats_enabled THEN [s |-> s, g |-> g, called |-> FALSE]
    ELSE IF s.variant = "basic"
    THEN [s |-> [s EXCEPT !.summary.cycle_summary = summarizeCycleStats(s)],
          g |-> publishEvent(g, "stats_update", s.summary.total_cycles,
                             sendOk),
          called |-> TRUE]
    ELSE publishFinalToGUIReadOnly(s, p, g, sendOk)

\* --------------------------------------------- cycles and reports: the steps

\* What a step on the cycles leaves alone.
otherThanCycle == <<portVars, memVars, compVars, ctxVars, guiVars,
                    exportVars, coeffVars>>

\* The ghosts of the statistics engine a cycle or a report leaves alone.
statGhosts == <<variant, cycle_tracking, stat_buffer_size, power_area_config,
                startedEmpty, closedStreaks, openStalls, longestRun,
                busyCalls>>

\* No cycle bracketed yet.
IdleCycle == simCycle = [open |-> FALSE, done |-> <<>>]

\* The timing model calls updateHWStatsCycleStart() before a cycle.
UpdateHWStatsCycleStart ==
    /\ ~simCycle.open
    /\ Len(simCycle.done) < MaxCycles
    /\ \E s \in {updateHWStatsCycleStart(StatsState)} :
          /\ StatStep("updateHWStatsCycleStart", s)
          /\ rotations' = s.rotations
          /\ recorded' = IF s.wrote.stored
                         THEN Append(recorded, current_cycle_stats)
                         ELSE recorded
    /\ simCycle' = [simCycle EXCEPT !.open = TRUE]
    /\ UNCHANGED <<statGhosts, otherThanCycle>>

\* The timing model counts what is in flight during the cycle.
CountInFlight ==
    \E n \in 1 .. 2 :
        /\ simCycle.open
        /\ current_cycle_stats.resInFlight = 0
        /\ StatStep("count",
                    [StatsState EXCEPT !.current_cycle_stats.resInFlight = n])
        /\ UNCHANGED <<recorded, rotations, simCycle, statGhosts,
                       otherThanCycle>>

\* The timing model calls updateHWStatsCycleEnd(c) after cycle c.
UpdateHWStatsCycleEnd ==
    /\ simCycle.open
    /\ \E s \in {updateHWStatsCycleEnd(StatsState, Len(simCycle.done) + 1)} :
          /\ StatStep("updateHWStatsCycleEnd", s)
          /\ rotations' = s.rotations
          /\ recorded' = IF s.wrote.stored
                         THEN Append(recorded, s.current_cycle_stats)
                         ELSE recorded
    /\ simCycle' = [open |-> FALSE,
                    done |-> Append(simCycle.done,
                                [cycle |-> Len(simCycle.done) + 1,
                                 resInFlight |->
                                     current_cycle_stats.resInFlight])]
    /\ UNCHANGED <<statGhosts, otherThanCycle>>

NextCycle ==
    \/ UpdateHWStatsCycleStart
    \/ CountInFlight
    \/ UpdateHWStatsCycleEnd

\* The parameters and the report file while another part is looked at.
IdleExport ==
    /\ exportParams = [output_statistics |-> FALSE, output_file |-> "",
                       gui_stats_enabled |-> FALSE, pretty_print |-> TRUE]
    /\ reportFile = [exists |-> FALSE, old |-> FALSE, report |-> NoReport]

\* HWStatistics(params) with its report parameters, and the file output_file
\* names: absent, or left by an earlier run.
InitExport ==
    \E os \in BOOLEAN, of \in OutputFiles, gs \in BOOLEAN, old \in BOOLEAN :
        /\ exportParams = [output_statistics |-> os, output_file |-> of,
                           gui_stats_enabled |-> gs, pretty_print |-> TRUE]
        /\ reportFile = [exists |-> old /\ Openable(of),
                         old |-> old /\ Openable(of), report |-> NoReport]

\* The global publisher: the disabled one getGUIPublisher() makes, or the one
\* initGUIPublisher(address, true) makes and initializes.
InitGuiGlobal ==
    \E g \in {GUIPublisher(TRUE, FALSE),
              initialize(GUIPublisher(TRUE, TRUE), "ok")} :
        GuiStartAs(g)

\* What a report leaves alone besides the engine, the publisher and the file.
otherThanExport == <<portVars, memVars, compVars, ctxVars, coeffVars,
                     simCycle, exportParams>>

\* A snapshot is recorded before any report is made.
RecordBeforeExport ==
    /\ recorded = <<>>
    /\ RecordCycleStats

\* toJSON(pretty) is called.
ToJSON ==
    \E pretty \in BOOLEAN :
      \E json \in {toJSON(StatsState, pretty)} :
        /\ StatStep("toJSON", StatsState)
        /\ UNCHANGED <<recorded, rotations, statGhosts, guiVars, reportFile,
                       otherThanExport>>

\* printSummary(os) is called.
PrintSummary ==
    \E text \in {printSummary(StatsState)} :
        /\ StatStep("printSummary", StatsState)
        /\ UNCHANGED <<recorded, rotations, statGhosts, guiVars, reportFile,
                       otherThanExport>>

\* printDetailed(os) is called.
PrintDetailed ==
    \E text \in {printDetailed(StatsState)} :
        /\ StatStep("printDetailed", StatsState)
        /\ UNCHANGED <<recorded, rotations, statGhosts, guiVars, reportFile,
                       otherThanExport>>

\* writeJSONFile() is called.
WriteJSONFile ==
    \E r \in {writeJSONFile(StatsState, exportParams, reportFile)} :
        /\ StatStep("writeJSONFile", StatsState)
        /\ reportFile' = r.file
        /\ UNCHANGED <<recorded, rotations, statGhosts, guiVars,
                       otherThanExport>>

\* The engine and the publisher after a publish...ToGUI call op that left
\* them as r.
PublishStep(op, r) ==
    /\ StatStep(op, r.s)
    /\ IF r.called THEN GuiStep("publishEvent", r.g)
       ELSE UNCHANGED guiVars
    /\ UNCHANGED <<recorded, rotations, statGhosts, reportFile,
                   otherThanExport>>

\* publishCycleToGUI(cycle) is called.
PublishCycleToGUI ==
    \E sendOk \in BOOLEAN :
        PublishStep("publishCycleToGUI",
                    publishCycleToGUI(StatsState, exportParams, GuiState, 1,
                                      sendOk))

\* publishFinalToGUI() is called.
PublishFinalToGUI ==
    \E sendOk \in BOOLEAN :
        PublishStep("publishFinalToGUI",
                    publishFinalToGUI(StatsState, exportParams, GuiState,
                                      sendOk))

\* The calls that make a report.
ExportOps ==
    {"toJSON", "printSummary", "printDetailed", "writeJSONFile",
     "publishCycleToGUI", "publishFinalToGUI"}

NextExport ==
    \/ RecordBeforeExport
    \/ CollectPerformanceStats
    \/ ToJSON
    \/ PrintSummary
    \/ PrintDetailed
    \/ WriteJSONFile
    \/ PublishCycleToGUI
    \/ PublishFinalToGUI

\* ================================================= Gem5MemoryPort, continued

\* MemoryRequest(reqId, reqType, address, reqSize): the fields the port touches
NewRequest(type, size) ==
    [requestTick |-> 0, responseTick |-> 0, completed |-> FALSE,
     success |-> FALSE, dataLen |-> IF type = "Write" THEN size ELSE 0]

\* What the completion callback saw when it last ran.
NoCallback == [fired |-> FALSE, req |-> "A", completed |-> FALSE,
               responseTick |-> 0]

\* The port as one value, for the operators below.
PortState ==
    [stalled |-> stalled, retryQueue |-> retryQueue,
     pendingRequests |-> pendingRequests, packets |-> packets,
     completionCallback |-> completionCallback,
     reqs |-> reqs, accepts |-> accepts, callbacks |-> callbacks,
     missed |-> missed, cb |-> NoCallback, ret |-> FALSE,
     dispatched |-> <<>>]

\* createPacket: the command chosen by the switch, and the allocation (new
\* throws rather than return null, so the callers' null checks never fire)
createPacket(p, r) ==
    [addr |-> CHOOSE a \in PktAddrs :
                 /\ a \notin DOMAIN p.packets
                 /\ \A b \in PktAddrs \ DOMAIN p.packets : a <= b,
     cmd  |-> CASE ReqType[r] = "Read" -> "ReadReq"
                [] ReqType[r] = "Write" -> "WriteReq"
                [] ReqType[r] = "ReadExclusive" -> "ReadExReq"
                [] OTHER -> "ReadReq",
     size |-> ReqSize[r],
     req  |-> r]

\* port.sendTimingReq(pkt): the downstream takes the packet when it is willing
\* and has room, and refuses it otherwise.
DownstreamAccepts(p, willing) ==
    willing /\ Cardinality(DOMAIN p.pendingRequests) < MaxInflight

\* sendTimingRequest that forgets pendingRequests.erase(pkt) on refusal (faulty variant).
sendTimingRequestNoErase(p, r, willing, now) ==
    IF p.stalled THEN [p EXCEPT !.ret = FALSE]
    ELSE
      LET pkt == createPacket(p, r)
          q == [p EXCEPT
                  !.pendingRequests = MapPut(@, pkt.addr, r),
                  !.packets = MapPut(@, pkt.addr, pkt),
                  !.reqs[r].requestTick = now]
      IN IF ~DownstreamAccepts(p, willing)
         THEN [q EXCEPT
                 !.packets = MapErase(@, pkt.addr),
                 !.stalled = TRUE,
                 !.retryQueue = Append(@, r),
                 !.dispatched = Append(@, <<r, FALSE>>),
                 !.ret = FALSE]
         ELSE [q EXCEPT
                 !.accepts[r] = @ + 1,
                 !.dispatched = Append(@, <<r, TRUE>>),
                 !.ret = TRUE]

\* Gem5MemoryPort::sendTimingRequest
sendTimingRequest(p, r, willing, now) ==
    IF p.stalled THEN [p EXCEPT !.ret = FALSE]
    ELSE
      LET pkt == createPacket(p, r)
          q == [p EXCEPT
                  !.pendingRequests = MapPut(@, pkt.addr, r),
                  !.packets = MapPut(@, pkt.addr, pkt),
                  !.reqs[r].requestTick = now]
      IN IF ~DownstreamAccepts(p, willing)
         THEN [q EXCEPT
                 !.pendingRequests = MapErase(@, pkt.addr),
                 !.packets = MapErase(@, pkt.addr),
                 !.stalled = TRUE,
                 !.retryQueue = Append(@, r),
                 !.dispatched = Append(@, <<r, FALSE>>),
                 !.ret = FALSE]
         ELSE [q EXCEPT
                 !.accepts[r] = @ + 1,
                 !.dispatched = Append(@, <<r, TRUE>>),
                 !.ret = TRUE]

\* gem5::Packet::hasData() of the response to pkt: a read response carries
\* data unless it is an error response.
PktHasData(pkt, isError) ==
    pkt.cmd \in {"ReadReq", "ReadExReq"} /\ ~isError

\* copyResponseData
copyResponseData(rq, pkt, hasData) ==
    IF isRead(ReqType[pkt.req]) /\ hasData
    THEN [rq EXCEPT !.dataLen = pkt.size]
    ELSE rq

\* sendFunctional that honours the stall like a timing request (faulty variant).
sendFunctionalStalls(p, r) ==
    IF p.stalled
    THEN [p EXCEPT !.retryQueue = Append(@, r)]
    ELSE [p EXCEPT !.reqs[r].completed = TRUE, !.reqs[r].success = TRUE]

\* Gem5MemoryPort::sendFunctional. The packet is allocated and deleted inside
\* the call; port.sendFunctional(pkt) turns it into its response.
sendFunctional(p, r) ==
    LET pkt == createPacket(p, r)
        rq == copyResponseData(p.reqs[r], pkt, PktHasData(pkt, FALSE))
    IN [p EXCEPT !.reqs[r] = [rq EXCEPT !.completed = TRUE,
                                        !.success = TRUE]]

\* completionCallback(*req): the registered callback runs on the filled request
runCallback(p, r) ==
    IF p.completionCallback
    THEN [p EXCEPT !.callbacks[r] = @ + 1,
                   !.cb = [fired |-> TRUE, req |-> r,
                           completed |-> p.reqs[r].completed,
                           responseTick |-> p.reqs[r].responseTick]]
    ELSE [p EXCEPT !.missed[r] = @ + 1]

\* handleTimingResponse that runs the callback twice (faulty variant).
handleTimingResponseAlwaysCalls(p, a, isError, now) ==
    IF a \in DOMAIN p.pendingRequests
    THEN LET r == p.pendingRequests[a]
             rq == copyResponseData(p.reqs[r], p.packets[a],
                                    PktHasData(p.packets[a], isError))
             q == [p EXCEPT
                     !.reqs[r] = [rq EXCEPT !.responseTick = now,
                                            !.completed = TRUE,
                                            !.success = ~isError],
                     !.pendingRequests = MapErase(@, a),
                     !.packets = MapErase(@, a),
                     !.ret = TRUE]
         IN runCallback(runCallback(q, r), r)
    ELSE [p EXCEPT !.ret = TRUE]

\* Gem5MemoryPort::handleTimingResponse: the request found for the packet is
\* filled in, its entry erased and the callback run; the packet is deleted
\* either way.
handleTimingResponse(p, a, isError, now) ==
    IF a \in DOMAIN p.pendingRequests
    THEN LET r == p.pendingRequests[a]
             rq == copyResponseData(p.reqs[r], p.packets[a],
                                    PktHasData(p.packets[a], isError))
             q == [p EXCEPT
                     !.reqs[r] = [rq EXCEPT !.responseTick = now,
                                            !.completed = TRUE,
                                            !.success = ~isError],
                     !.pendingRequests = MapErase(@, a),
                     !.packets = MapErase(@, a),
                     !.ret = TRUE]
         IN runCallback(q, r)
    ELSE [p EXCEPT !.ret = TRUE]

\* The while loop of handleRetry; d holds the downstream's willingness for
\* each resubmission in turn.
RECURSIVE retryLoop(_, _, _)
retryLoop(p, d, now) ==
    IF p.retryQueue = <<>> \/ d = <<>> THEN p
    ELSE LET r == Head(p.retryQueue)
             s == sendTimingRequest([p EXCEPT !.retryQueue = Tail(@)],
                                    r, Head(d), now)
         IN IF ~s.ret THEN s ELSE retryLoop(s, Tail(d), now)

\* handleRetry that drops the request refused again (faulty variant).
handleRetryDrops(p, d, now) ==
    LET s == retryLoop([p EXCEPT !.stalled = FALSE], d, now)
    IN [s EXCEPT !.retryQueue = <<>>]

\* handleRetry that leaves the stall flag set (faulty variant).
handleRetryStaysStalled(p, d, now) ==
    retryLoop(p, d, now)

\* Gem5MemoryPort::handleRetry
handleRetry(p, d, now) ==
    retryLoop([p EXCEPT !.stalled = FALSE], d, now)

\* Gem5MemoryPort::isStalled
isStalled(p) == p.stalled

\* Gem5MemoryPort::isReady
isReady(p) == ~p.stalled

\* ------------------------------------------------- the port's state machine

\* Number of entries of pendingRequests that point at request r.
PendingCount(pend, r) == Cardinality({a \in DOMAIN pend : pend[a] = r})

\* What lastCall records of a call whose details no property reads.
PlainCall(op, r) ==
    [op |-> op, req |-> r, wasStalled |-> FALSE, accepted |-> FALSE,
     ret |-> FALSE, pkt |-> ForeignPkt, pendBefore |-> 0,
     dispatched |-> <<>>, subs |-> <<>>, cb |-> NoCallback]

\* Gem5MemoryPort(portName, parent, requestorId), no callback registered yet,
\* and the callers' requests freshly constructed.
InitPort ==
    /\ stalled = FALSE
    /\ retryQueue = <<>>
    /\ pendingRequests = <<>>
    /\ packets = <<>>
    /\ completionCallback = FALSE
    /\ reqs = [r \in Requests |-> NewRequest(ReqType[r], ReqSize[r])]
    /\ curTick = 0
    /\ accepts = [r \in Requests |-> 0]
    /\ callbacks = [r \in Requests |-> 0]
    /\ missed = [r \in Requests |-> 0]
    /\ stalledSubs = <<>>
    /\ lastCall = PlainCall("construct", "A")

\* The port's fields after a call that left it as s.
PortBecomes(s) ==
    /\ stalled' = s.stalled
    /\ retryQueue' = s.retryQueue
    /\ pendingRequests' = s.pendingRequests
    /\ packets' = s.packets
    /\ reqs' = s.reqs
    /\ accepts' = s.accepts
    /\ callbacks' = s.callbacks
    /\ missed' = s.missed
    /\ completionCallback' = s.completionCallback

\* What lastCall records of a call op(r) that left the port as s.
CallRecord(op, r, pkt, accepted, s) ==
    [op |-> op, req |-> r, wasStalled |-> stalled, accepted |-> accepted,
     ret |-> s.ret, pkt |-> pkt,
     pendBefore |-> PendingCount(pendingRequests, r),
     dispatched |-> s.dispatched, subs |-> stalledSubs, cb |-> s.cb]

\* Acceptances so far, over all requests.
TotalAccepts == accepts["A"] + accepts["B"]

\* A caller submits request r with sendTimingRequest.
SendTimingRequest ==
    \E r \in Requests, willing \in BOOLEAN :
        /\ TotalAccepts < MaxAccepts
        /\ stalled => Len(stalledSubs) < MaxStalledSubs
        /\ \E s \in {sendTimingRequest(PortState, r, willing, curTick)} :
              /\ PortBecomes(s)
              /\ lastCall' = CallRecord("sendTimingRequest", r,
                                 createPacket(PortState, r).addr,
                                 DownstreamAccepts(PortState, willing), s)
        /\ stalledSubs' = IF stalled THEN Append(stalledSubs, r)
                          ELSE stalledSubs
        /\ UNCHANGED <<curTick, otherThanPort>>

\* A caller performs request r with sendFunctional.
SendFunctional ==
    \E r \in Requests :
        /\ \E s \in {sendFunctional(PortState, r)} :
              /\ PortBecomes(s)
              /\ lastCall' = PlainCall("sendFunctional", r)
        /\ UNCHANGED <<curTick, stalledSubs, otherThanPort>>

\* setCompletionCallback(callback), with a callable or an empty std::function
SetCompletionCallback ==
    \E callable \in BOOLEAN :
        /\ completionCallback' = callable
        /\ lastCall' = PlainCall("setCompletionCallback", "A")
        /\ UNCHANGED <<stalled, retryQueue, pendingRequests, packets, reqs,
                       curTick, accepts, callbacks, missed, stalledSubs,
                       otherThanPort>>

\* The response to packet a arrives (an error response when isError).
HandleTimingResponseOf(a, isError) ==
    /\ \E s \in {handleTimingResponse(PortState, a, isError, curTick)} :
          /\ PortBecomes(s)
          /\ lastCall' = CallRecord("handleTimingResponse",
                             IF a \in DOMAIN pendingRequests
                             THEN pendingRequests[a] ELSE "A",
                             a, FALSE, s)
    /\ UNCHANGED <<curTick, stalledSubs, otherThanPort>>

\* Gem5RequestPort::recvTimingResp: the downstream answers a packet it holds,
\* or the port is handed a packet it does not know.
HandleTimingResponse ==
    \E a \in DOMAIN pendingRequests \cup {ForeignPkt}, isError \in BOOLEAN :
        HandleTimingResponseOf(a, isError)

\* Gem5RequestPort::recvReqRetry with the downstream's answers d to the
\* resubmissions.
HandleRetryWith(d) ==
    /\ \E s \in {handleRetry(PortState, d, curTick)} :
          /\ PortBecomes(s)
          /\ lastCall' = CallRecord("handleRetry", "A", ForeignPkt, FALSE, s)
    /\ stalledSubs' = <<>>
    /\ UNCHANGED <<curTick, otherThanPort>>

\* The downstream notifies the port that it may retry.
HandleRetry ==
    \E d \in [1 .. Len(retryQueue) -> BOOLEAN] : HandleRetryWith(d)

\* Simulated time moves on.
AdvanceTick ==
    /\ curTick < MaxTick
    /\ curTick' = curTick + 1
    /\ lastCall' = PlainCall("tick", "A")
    /\ UNCHANGED <<stalled, retryQueue, pendingRequests, packets,
                   completionCallback, reqs, accepts, callbacks, missed,
                   stalledSubs, otherThanPort>>

NextPort ==
    \/ SendTimingRequest
    \/ SendFunctional
    \/ SetCompletionCallback
    \/ HandleTimingResponse
    \/ HandleRetry
    \/ AdvanceTick

\* The parts around the statistics engine while another part is looked at.
IdleOutput == IdleGui /\ IdleExport /\ IdleCycle /\ IdleCoeff

\* The port under calls, the memory left alone.
InitSpecPort ==
    InitPort /\ IdleMem /\ IdleComp /\ InitCtx /\ IdleStat
        /\ IdleOutput

SpecPort == InitSpecPort /\ [][NextPort]_vars

\* The gem5 side keeps its side of the timing protocol: the packets it holds
\* are answered, and after a refusal it sends a retry notification at which it
\* is willing to take what the port resubmits.
ResponseArrives ==
    \E a \in DOMAIN pendingRequests, isError \in BOOLEAN :
        HandleTimingResponseOf(a, isError)

RetryWilling == HandleRetryWith([i \in 1 .. Len(retryQueue) |-> TRUE])

\* The timing traffic of the port on its own: submissions, responses, retry
\* notifications and the clock.
NextTiming ==
    \/ SendTimingRequest
    \/ HandleTimingResponse
    \/ HandleRetry
    \/ AdvanceTick

SpecPortFair ==
    /\ InitSpecPort
    /\ [][NextTiming]_vars
    /\ WF_vars(RetryWilling)
    /\ WF_vars(ResponseArrives)

\* The SimpleMemory under requests, the port left alone.
InitSpecMem ==
    InitMem /\ InitPort /\ IdleComp /\ InitCtx /\ IdleStat
        /\ IdleOutput

SpecMem == InitSpecMem /\ [][NextMem]_vars

\* A clocked component under lifecycle and nextCycle calls.
InitSpecComp ==
    InitComp /\ InitPort /\ IdleMem /\ InitCtx /\ IdleStat
        /\ IdleOutput

SpecComp == InitSpecComp /\ [][NextComp]_vars

\* The simulation context under calls, the event queue serviced.
InitSpecCtx ==
    InitCtx /\ InitPort /\ IdleMem /\ IdleComp /\ IdleStat
        /\ IdleOutput

SpecCtx == InitSpecCtx /\ [][NextCtx]_vars

\* A statistics engine of either variant under calls.
InitSpecStat ==
    InitStat /\ InitPort /\ IdleMem /\ IdleComp /\ InitCtx
        /\ IdleOutput

SpecStat == InitSpecStat /\ [][NextStat]_vars

\* The enhanced engine's stall and contention recording.
InitSpecStall ==
    IdleStat /\ InitPort /\ IdleMem /\ IdleComp /\ InitCtx
        /\ IdleOutput

SpecStall == InitSpecStall /\ [][NextStall]_vars

\* The power model of both engines.
InitSpecPower ==
    InitPower /\ InitPort /\ IdleMem /\ IdleComp /\ InitCtx
        /\ IdleOutput

SpecPower == InitSpecPower /\ [][NextPower]_vars

\* A publisher under lifecycle and publish calls.
InitSpecGui ==
    InitGui /\ IdleExport /\ IdleCycle /\ IdleCoeff /\ InitPort /\ IdleMem
        /\ IdleComp /\ InitCtx /\ IdleStat

SpecGui == InitSpecGui /\ [][NextGui]_vars

\* A coefficient object saved to and loaded from a file.
InitSpecCoeff ==
    InitCoeff /\ IdleGui /\ IdleExport /\ IdleCycle /\ InitPort /\ IdleMem
        /\ IdleComp /\ InitCtx /\ IdleStat

SpecCoeff == InitSpecCoeff /\ [][NextCoeff]_vars

\* A statistics engine of either variant under bracketed cycles.
InitSpecCycle ==
    InitStat /\ IdleOutput /\ InitPort /\ IdleMem /\ IdleComp /\ InitCtx

SpecCycle == InitSpecCycle /\ [][NextCycle]_vars

\* A statistics engine of either variant making its reports.
InitSpecExport ==
    InitStat /\ InitExport /\ InitGuiGlobal /\ IdleCycle /\ IdleCoeff
        /\ InitPort /\ IdleMem /\ IdleComp /\ InitCtx

SpecExport == InitSpecExport /\ [][NextExport]_vars

\* ------------------------------------------------------ claims on the port

\* Whether request r is in the retry queue.
InRetryQueue(r) == \E i \in 1 .. Len(retryQueue) : retryQueue[i] = r

\* Whether the last call dispatched r downstream and had it accepted.
AcceptedInLastCall(r) ==
    \E i \in 1 .. Len(lastCall.dispatched) : lastCall.dispatched[i] = <<r, TRUE>>

\* The requests of sequence q that are members of set S, in q's order.
RECURSIVE Restrict(_, _)
Restrict(q, S) ==
    IF q = <<>> THEN <<>>
    ELSE IF Head(q) \in S THEN <<Head(q)>> \o Restrict(Tail(q), S)
    ELSE Restrict(Tail(q), S)

\* C1: after a retry notification, every request that was submitted while the
\* port was stalled has been accepted downstream or is in the retry queue, and
\* those requests were resubmitted in the order of their submission.
C1_RetryOrdering ==
    lastCall.op = "handleRetry" =>
        LET subs == lastCall.subs
            S == {subs[i] : i \in 1 .. Len(subs)}
            sent == [i \in 1 .. Len(lastCall.dispatched) |->
                        lastCall.dispatched[i][1]]
        IN /\ \A r \in S : AcceptedInLastCall(r) \/ InRetryQueue(r)
           /\ Restrict(sent, S) = Restrict(subs, {sent[i] : i \in DOMAIN sent})

\* C2: a sendTimingRequest on a stalled port returns false and leaves the
\* request in the retry queue.
C2_StalledRequestQueued ==
    (lastCall.op = "sendTimingRequest" /\ lastCall.wasStalled) =>
        (~lastCall.ret /\ InRetryQueue(lastCall.req))

\* C3: a sendTimingRequest on a port that is not stalled returns true exactly
\* when the downstream accepted; accepted, the request is pending under its
\* packet; refused, the port is stalled, the request is the last of the retry
\* queue and no pending entry was left behind for it.
C3_UnstalledSendOutcome ==
    (lastCall.op = "sendTimingRequest" /\ ~lastCall.wasStalled) =>
        /\ lastCall.ret = lastCall.accepted
        /\ lastCall.ret =>
              /\ lastCall.pkt \in DOMAIN pendingRequests
              /\ pendingRequests[lastCall.pkt] = lastCall.req
              /\ PendingCount(pendingRequests, lastCall.req)
                    = lastCall.pendBefore + 1
        /\ ~lastCall.ret =>
              /\ stalled
              /\ retryQueue # <<>>
              /\ retryQueue[Len(retryQueue)] = lastCall.req
              /\ lastCall.pkt \notin DOMAIN pendingRequests
              /\ PendingCount(pendingRequests, lastCall.req)
                    = lastCall.pendBefore

\* C3 witness: an unstalled submission was refused downstream.
C3_Witness ==
    /\ lastCall.op = "sendTimingRequest"
    /\ ~lastCall.wasStalled
    /\ ~lastCall.ret
    /\ stalled
    /\ InRetryQueue(lastCall.req)

\* C4: every acceptance of a request is answered by its callback at most once
\* and only at its response: per request, callbacks run, responses handled
\* with no callback registered and entries still pending add up to the
\* acceptances; a response handled with a callback registered runs it on the
\* request with completed = true and responseTick = the current tick; and the
\* callback runs in no other call.
C4_CallbackOncePerAccepted ==
    /\ \A r \in Requests :
          callbacks[r] + missed[r] + PendingCount(pendingRequests, r)
             = accepts[r]
    /\ (/\ lastCall.op = "handleTimingResponse"
        /\ lastCall.pkt # ForeignPkt
        /\ completionCallback) =>
          /\ lastCall.cb.fired
          /\ lastCall.cb.req = lastCall.req
          /\ lastCall.cb.completed
          /\ lastCall.cb.responseTick = curTick
    /\ lastCall.cb.fired =>
          (lastCall.op = "handleTimingResponse" /\ lastCall.pkt # ForeignPkt)

\* C4 witness: a request accepted during a retry got its callback, at a tick
\* after the start.
C4_Witness ==
    /\ lastCall.op = "handleTimingResponse"
    /\ lastCall.cb.fired
    /\ callbacks[lastCall.req] = 1
    /\ accepts[lastCall.req] = 1
    /\ lastCall.cb.responseTick = MaxTick

\* C5: a request queued after a refusal leaves the retry queue only by being
\* accepted downstream, and it does leave it.
C5_RefusedEventuallyAccepted ==
    /\ [][\A r \in Requests :
            (InRetryQueue(r) /\ ~InRetryQueue(r)') =>
                accepts'[r] = accepts[r] + 1]_vars
    /\ \A r \in Requests : InRetryQueue(r) ~> ~InRetryQueue(r)

\* C5 witness: a retry notification resubmitted the queued request and the
\* downstream accepted it.
C5_Witness ==
    /\ lastCall.op = "handleRetry"
    /\ lastCall.wasStalled
    /\ Len(lastCall.dispatched) = 1
    /\ lastCall.dispatched[1][2]
    /\ retryQueue = <<>>

\* C6: sendFunctional returns with the request completed and successful and
\* leaves stalled, the retry queue and the pending table as they were.
C6_FunctionalBypassesBackPressure ==
    [][lastCall'.op = "sendFunctional" =>
          /\ reqs'[lastCall'.req].completed
          /\ reqs'[lastCall'.req].success
          /\ UNCHANGED <<stalled, retryQueue, pendingRequests>>]_vars

\* C6 witness: sendFunctional completed a request on a stalled port.
C6_Witness ==
    /\ lastCall.op = "sendFunctional"
    /\ stalled
    /\ retryQueue # <<>>
    /\ reqs[lastCall.req].completed
    /\ reqs[lastCall.req].success

\* ---------------------------------------------------- claims on SimpleMemory

\* Whether the last step delivered the request to the memory.
Delivered == mlast.op \in {"recvFunctional", "recvTimingRequest"}

\* Whether request rq lies within [base, base + size of st), in the integers.
InRange(st, b, rq) == b <= rq.addr /\ rq.addr + rq.size <= b + Len(st)

\* C7: a write of a full payload to an in-range (addr, len) succeeds, leaves
\* the bytes outside [addr, addr + len) as they were, and a read of len bytes
\* at addr then succeeds and returns the payload.
C7_WriteReadRoundTrip ==
    (/\ mlast.op = "recvFunctional"
     /\ isWrite(mlast.req.type)
     /\ Len(mlast.req.data) = mlast.req.size
     /\ InRange(mlast.storage, base, mlast.req)) =>
        LET w == mlast.req
            off == w.addr - base
        IN /\ mreq.success
           /\ \A j \in 1 .. Len(storage) :
                 (j - 1 < off \/ j - 1 >= off + w.size) =>
                     storage[j] = mlast.storage[j]
           /\ \A g \in [1 .. w.size -> Bytes] :
                 LET rd == recvFunctional(storage, base,
                               MemoryRequest("Read", w.addr, w.size), g).req
                 IN rd.success /\ rd.data = w.data

\* C8: a request outside [base, base + size) ends with success = false,
\* delivered either way.
C8_OutOfRangeFails ==
    (Delivered /\ ~InRange(mlast.storage, base, mlast.req)) => ~mreq.success

\* C9: a request outside [base, base + size) leaves the storage and the
\* request's data buffer as they were.
C9_OutOfRangeNoSideEffect ==
    (Delivered /\ ~InRange(mlast.storage, base, mlast.req)) =>
        (storage = mlast.storage /\ mreq.data = mlast.req.data)

\* C10: a write-kind request has a payload of size bytes when it is
\* submitted, and a read-kind request has one once the memory has completed
\* it with success.
C10_PayloadInvariant ==
    Delivered =>
        /\ isWrite(mlast.req.type) => Len(mlast.req.data) = mlast.req.size
        /\ (isRead(mreq.type) /\ mreq.success) => Len(mreq.data) = mreq.size

\* ----------------------------------------- claims on the hardware component

\* The lifecycle transitions the specification lists.
ListedTransition(op, from, to) ==
    \/ op = "init" /\ from = "Created" /\ to = "Initialized"
    \/ op = "startup" /\ from = "Initialized" /\ to = "Started"
    \/ op = "drain" /\ from = "Started" /\ to \in {"Drained", "Draining"}
    \/ op = "drainResume" /\ from \in {"Drained", "Draining"}
                          /\ to = "Started"

\* C11: a component starts in Created, and every state change made by an
\* init, startup, drain or drainResume call is one of the listed transitions
\* (so the state never moves back and a component never drained is not
\* resumed into Started).
C11_LifecycleTransitions ==
    /\ lastComp.op = "construct" => state = "Created"
    /\ lastComp.op # "construct" /\ lastComp.before # state =>
           ListedTransition(lastComp.op, lastComp.before, state)

\* C12: nextCycle(t) is (floor(t/p)+1)*p: a multiple of the period p,
\* strictly greater than t and at most p ticks after t, for every tick t.
C12_NextCycleIsNextEdge ==
    cycleOut.called =>
        /\ cycleOut.next = ((cycleOut.after \div period) + 1) * period
        /\ cycleOut.next % period = 0
        /\ cycleOut.next > cycleOut.after
        /\ cycleOut.next <= cycleOut.after + period

\* --------------------------------------- claims on the simulation context

\* C13: deschedule on an event that is not scheduled is a no-op (the event
\* stays unscheduled, no other event's tick changes, nothing leaves the
\* queue), and reschedule on an unscheduled event behaves as schedule.
C13_DescheduleUnscheduledNoOp ==
    /\ lastCtx.op = "deschedule"
           /\ ~scheduled(lastCtx.before.queue, lastCtx.ev) =>
           /\ CtxState = lastCtx.before
           /\ ~scheduled(mainEventQueue, lastCtx.ev)
    /\ lastCtx.op = "reschedule"
           /\ ~scheduled(lastCtx.before.queue, lastCtx.ev) =>
           /\ CtxState = schedule(lastCtx.before, lastCtx.ev, lastCtx.when,
                                  lastCtx.sub)
           /\ IsGem5Event(lastCtx.ev) /\ lastCtx.when >= lastCtx.before.now =>
                  /\ scheduled(mainEventQueue, lastCtx.ev)
                  /\ when(mainEventQueue, lastCtx.ev) = lastCtx.when
                  /\ EventQueueRemove(mainEventQueue, lastCtx.ev) =
                         lastCtx.before.queue

\* An unscheduled event of the context was descheduled while another event
\* was scheduled.
C13_Witness ==
    /\ lastCtx.op = "deschedule"
    /\ IsGem5Event(lastCtx.ev)
    /\ ~scheduled(lastCtx.before.queue, lastCtx.ev)
    /\ lastCtx.before.queue # <<>>

Suffix(q, n) == SubSeq(q, Len(q) - n + 1, Len(q))

\* The windows from b on, one after the other.
RECURSIVE Flatten(_, _)
Flatten(list, b) ==
    IF b > Len(list) THEN <<>> ELSE list[b] \o Flatten(list, b + 1)

\* The stored snapshots from the oldest to the newest: every window in order
\* (basic), or the windows after the active one, those before it and the
\* active window up to the cursor (enhanced).
Retained ==
    IF variant = "basic" THEN Flatten(hw_buffer_list, 1)
    ELSE Flatten(hw_buffer_list, hw_buffer + 1)
         \o Flatten(SubSeq(hw_buffer_list, 1, hw_buffer - 1), 1)
         \o SubSeq(hw_buffer_list[hw_buffer], 1, cycle_buffer - 1)

\* C15 as stated: with stat_buffer_size = K >= 1, recording K+1 snapshots
\* from empty windows runs updateBuffer exactly once.
C15_OneRotationForKPlusOne ==
    cycle_tracking /\ startedEmpty
        /\ Len(recorded) = stat_buffer_size + 1 =>
        rotations = 1

\* C15 as amended: recording M snapshots from empty windows runs updateBuffer
\* floor(M / K) times (once for K+1 snapshots when K >= 2, twice when K = 1).
C15_RotationPerFilledWindow ==
    cycle_tracking /\ startedEmpty =>
        rotations = Len(recorded) \div stat_buffer_size

\* K+1 snapshots were recorded from empty windows of capacity K >= 2.
C15_Witness ==
    /\ cycle_tracking
    /\ startedEmpty
    /\ stat_buffer_size >= 2
    /\ Len(recorded) = stat_buffer_size + 1
    /\ rotations = 1

\* C16: after recording M snapshots from empty windows, M >= 0,
\* summarizeCycleStats().total_samples is M.
C16_TotalSamplesIsM ==
    cycle_tracking /\ startedEmpty =>
        summarizeCycleStats(StatsState).total_samples = Len(recorded)

C18_RecentHistoryKept ==
    cycle_tracking =>
        LET n == IF Len(recorded) <= stat_buffer_size
                 THEN Len(recorded) ELSE stat_buffer_size
        IN  /\ Len(Retained) >= n
            /\ Suffix(Retained, n) = Suffix(recorded, n)

\* The enhanced engine has wrapped around: more snapshots than its two windows
\* hold were recorded, and the active window is partly rewritten.
C18_Witness ==
    /\ cycle_tracking
    /\ variant = "enhanced"
    /\ stat_buffer_size >= 2
    /\ Len(recorded) > 2 * stat_buffer_size
    /\ cycle_buffer > 1

\* C19: after clearStats every summary counter is zero, the windows hold no
\* recorded snapshot (total_samples is 0), recording restarts at the first
\* window, and the number and capacity of the windows are unchanged.
C19_ClearStatsResets ==
    lastStat.op = "clearStats" =>
        /\ summary = ZeroSummary
        /\ summarizeCycleStats(StatsState).total_samples = 0
        /\ hw_buffer = 1 /\ cycle_buffer = 1 /\ current_buffer_index = 0
        /\ Len(hw_buffer_list) = Len(lastStat.sizes)
        /\ variant = "enhanced" =>
               WindowSizes(hw_buffer_list) = lastStat.sizes

\* C20: stall_events is the number of recordNoStall calls that closed a
\* non-empty streak of recordStallCause calls since the last reset;
\* recordNoStall adds one to it after a streak and nothing otherwise.
C20_StallEventsCountClosedStreaks ==
    variant = "enhanced" =>
        /\ summary.stall_events = closedStreaks
        /\ lastStat.op = "recordNoStall" =>
               summary.stall_events =
                   lastStat.events + (IF lastStat.open > 0 THEN 1 ELSE 0)

\* recordNoStall closed a streak of two or more stalls, not the first streak.
C20_Witness ==
    /\ lastStat.op = "recordNoStall"
    /\ lastStat.open >= 2
    /\ closedStreaks >= 2

\* C21: max_consecutive_stalls is the length of the longest run of
\* recordStallCause calls that no recordNoStall interrupts since the last
\* reset, and it is never below current_stall_streak.
C21_MaxConsecutiveIsLongestRun ==
    /\ summary.max_consecutive_stalls = longestRun
    /\ summary.max_consecutive_stalls >= summary.current_stall_streak

\* A stall is recorded in a streak shorter than an earlier, closed one.
C21_Witness ==
    /\ lastStat.op = "recordStallCause"
    /\ closedStreaks >= 1
    /\ openStalls = 1
    /\ longestRun >= 2

\* The per-cause counters of a stall breakdown, added up.
CauseTotal(by_cause) == SumOver(by_cause, StallCause, Len(StallCause))

\* C22: the per-cause counters add up to total_stall_cycles in every state,
\* and one recording call raises them by at most one in total.
C22_OneCausePerStalledCycle ==
    /\ [](CauseTotal(summary.by_cause) = summary.total_stall_cycles)
    /\ [][lastStat'.op # "clearStats" =>
              CauseTotal(summary'.by_cause)
                  <= CauseTotal(summary.by_cause) + 1]_vars

\* The causes other than none.
RealCauses == Range(StallCause) \ {"NONE"}

\* The enumerator value of cause c.
Enumerator(c) == (CHOOSE i \in 1 .. Len(StallCause) : StallCause[i] = c) - 1

\* C23: getDominantCause() returns none when every counter of a cause other
\* than none is zero; otherwise the cause other than none with the highest
\* count and, among those tied for it, the lowest enumerator; the count under
\* none does not change the result.
C23_DominantCauseRule ==
    lastStat.op = "getDominantCause" =>
        LET by_cause == summary.by_cause
            dominant == getDominantCause(StatsState)
        IN  /\ (\A c \in RealCauses : by_cause[c] = 0) => dominant = "NONE"
            /\ (\E c \in RealCauses : by_cause[c] > 0) =>
                   /\ dominant \in RealCauses
                   /\ \A c \in RealCauses : by_cause[c] <= by_cause[dominant]
                   /\ \A c \in RealCauses :
                          by_cause[c] = by_cause[dominant] =>
                              Enumerator(dominant) <= Enumerator(c)
            /\ \A n \in 0 .. MaxStalls + 1 :
                   getDominantCause(
                       [StatsState EXCEPT !.summary.by_cause["NONE"] = n])
                       = dominant

\* getDominantCause() is asked while two causes tie for the highest count and
\* the count under none is above it.
C23_Witness ==
    /\ lastStat.op = "getDominantCause"
    /\ summary.by_cause["MEMORY_LATENCY"] = 1
    /\ summary.by_cause["FU_CONTENTION"] = 1
    /\ summary.by_cause["NONE"] = 2
    /\ getDominantCause(StatsState) = "MEMORY_LATENCY"

\* C24: for every cause c other than none with the strictly highest count,
\* getDominantCause() returns c and getDominantBottleneck() returns a label
\* for c ("memory_latency" for memory latency); it returns "none" only when
\* no stall of a cause other than none has been recorded.
C24_BottleneckNamesDominantCause ==
    lastStat.op = "getDominantBottleneck" =>
        /\ \A c \in RealCauses :
               (\A o \in RealCauses \ {c} :
                    summary.by_cause[o] < summary.by_cause[c]) =>
                   /\ getDominantCause(StatsState) = c
                   /\ getDominantBottleneck(StatsState) # "none"
                   /\ c = "MEMORY_LATENCY" =>
                          getDominantBottleneck(StatsState) = "memory_latency"
        /\ getDominantBottleneck(StatsState) = "none" =>
               \A c \in RealCauses : summary.by_cause[c] = 0

\* The FU types' contention_stalls, added up.
ContentionStalls(fu) ==
    SumOver([t \in Range(FUType) |-> fu.by_type[t].contention_stalls],
            FUType, Len(FUType))

\* C25: total_contention_stalls is the sum over the FU types of
\* contention_stalls and the sum of fu_stalls_by_type in every state, and a
\* recordFUContention(t), called directly or by recordFUStall(t), adds one to
\* contention_requests, contention_stalls and fu_stalls_by_type of t and
\* changes no other type's counters.
C25_FUContentionCountedOnBothSides ==
    /\ [](/\ summary.fu_utilization.total_contention_stalls
                = ContentionStalls(summary.fu_utilization)
          /\ summary.fu_utilization.total_contention_stalls
                = SumOver(summary.fu_stalls_by_type, FUType, Len(FUType)))
    /\ [][lastStat'.op \in {"recordFUContention", "recordFUStall"} =>
              \E t \in Range(FUType) :
                  /\ summary'.fu_utilization.by_type =
                         [summary.fu_utilization.by_type EXCEPT
                             ![t].contention_requests = @ + 1,
                             ![t].contention_stalls = @ + 1]
                  /\ summary'.fu_stalls_by_type =
                         [summary.fu_stalls_by_type EXCEPT ![t] = @ + 1]]_vars

\* recordFUContention has been called for both tried types.
C25_Witness ==
    /\ lastStat.op = "recordFUContention"
    /\ \A t \in TriedFUs :
           summary.fu_utilization.by_type[t].contention_stalls = 1

\* C26: after calculatePowerWithActivity() each block's total is the sum of
\* its parts: FU and register leakage plus dynamic, scratchpad and cache
\* leakage plus read plus write.
C26_BlockTotalsAreSums ==
    lastStat.op = "calculatePowerWithActivity" =>
        /\ summary.power.fu_total
               = summary.power.fu_leakage + summary.power.fu_dynamic
        /\ summary.power.reg_total
               = summary.power.reg_leakage + summary.power.reg_dynamic
        /\ summary.power.spm_total
               = summary.power.spm_leakage + summary.power.spm_read_dynamic
                     + summary.power.spm_write_dynamic
        /\ summary.power.cache_total
               = summary.power.cache_leakage
                     + summary.power.cache_read_dynamic
                     + summary.power.cache_write_dynamic

\* calculatePowerWithActivity() ran with FU, register, scratchpad and cache
\* leakage and FU, register and scratchpad-write activity to count.
C26_Witness ==
    /\ lastStat.op = "calculatePowerWithActivity"
    /\ summary.power.fu_leakage > 0 /\ summary.power.fu_dynamic > 0
    /\ summary.power.reg_leakage > 0 /\ summary.power.reg_dynamic > 0
    /\ summary.power.spm_leakage > 0 /\ summary.power.spm_write_dynamic > 0
    /\ summary.power.cache_leakage > 0

\* C27: after collectPowerStats, unitCorrections or
\* calculatePowerWithActivity of either engine, total_power is
\* fu_total + reg_total + spm_total + cache_total.
C27_TotalPowerIsSumOfBlocks ==
    lastStat.op \in {"collectPowerStats", "unitCorrections",
                     "calculatePowerWithActivity"} =>
        summary.power.total_power
            = summary.power.fu_total + summary.power.reg_total
                  + summary.power.spm_total + summary.power.cache_total

\* C28: a calculatePowerWithActivity() that follows another one with nothing
\* in between leaves every power and energy field as the first call left it.
C28_CalculatePowerIdempotent ==
    [][(/\ lastStat.op = "calculatePowerWithActivity"
        /\ lastStat'.op = "calculatePowerWithActivity") =>
           summary'.power = summary.power]_vars

\* calculatePowerWithActivity() ran twice in a row with FU activity to count.
C28_Witness ==
    /\ lastStat.op = "calculatePowerWithActivity"
    /\ lastStat.again
    /\ summary.power.fu_dynamic > 0
    /\ summary.power.total_energy_nj > 0

\* C29: after calculatePowerWithActivity() fu_leakage is the sum over the FU
\* types of static_count times the type's leakage, and fu_dynamic the sum of
\* the recordFUBusy calls for the type since reset times the type's
\* dynamic_read plus dynamic_write.
C29_FUPowerFormula ==
    lastStat.op = "calculatePowerWithActivity" =>
        /\ summary.power.fu_leakage
               = SumOver([t \in Range(FUType) |->
                              summary.static_count[t]
                                  * power_area_config.fu_coeffs[t].leakage_mw],
                         FUType, Len(FUType))
        /\ summary.power.fu_dynamic
               = SumOver([t \in Range(FUType) |->
                              busyCalls[t]
                                  * (power_area_config.fu_coeffs[t]
                                         .dynamic_read_mw
                                     + power_area_config.fu_coeffs[t]
                                           .dynamic_write_mw)],
                         FUType, Len(FUType))

\* calculatePowerWithActivity() ran with one integer adder, two recorded adds
\* and the default coefficients.
C29_Witness ==
    /\ lastStat.op = "calculatePowerWithActivity"
    /\ power_area_config = DefaultCoefficients
    /\ summary.static_count["FU_TYPE_INT_ADD_SUB"] = 1
    /\ busyCalls["FU_TYPE_INT_ADD_SUB"] = 2
    /\ summary.power.fu_dynamic = 2 * (8 + 6)

\* C30: after calculatePowerWithActivity() total_energy_nj is total_power
\* times total_cycles * clock_period_ns divided by 1000, and the FU, register
\* and memory energies add up to it.
C30_EnergyInNanojoules ==
    lastStat.op = "calculatePowerWithActivity" =>
        /\ summary.power.total_energy_nj * 1000
               = summary.power.total_power
                     * (summary.total_cycles * summary.clock_period_ns)
                     * NanojouleParts
        /\ summary.power.fu_energy_nj + summary.power.reg_energy_nj
               + summary.power.mem_energy_nj
               = summary.power.total_energy_nj

\* ------------------------------------------- claims on the port, continued

\* C37: between any two port operations the port is stalled exactly when its
\* retry queue is non-empty, a non-empty queue holds exactly one request, and
\* isReady() is the negation of isStalled().
C37_StallFlagAgreesWithRetryQueue ==
    /\ isStalled(PortState) <=> retryQueue # <<>>
    /\ retryQueue # <<>> => Len(retryQueue) = 1
    /\ isReady(PortState) = ~isStalled(PortState)

\* A retry notification whose resubmission was refused again: the port is
\* stalled anew with the same request queued.
C37_Witness ==
    /\ lastCall.op = "handleRetry"
    /\ lastCall.dispatched # <<>>
    /\ stalled
    /\ Len(retryQueue) = 1

\* ------------------------------------------ claims on SimpleMemory, continued

\* C38: recvFunctional either rejects the request or touches only storage
\* offsets in [0, S), also for addr and size whose sum wraps around.
C38_AccessesStayInStorage ==
    mlast.op = "recvFunctional" =>
        \/ RangeCheckFails(mlast.storage, base, mlast.req)
        \/ \A k \in TouchedOffsets(base, mlast.req) :
              k < Len(mlast.storage)

\* ------------------------------- claims on the hardware component, continued

\* C39: the base component is only ever Created, Initialized, Started or
\* Drained; drain() returns true, and leaves the component Drained.
C39_BaseComponentStates ==
    /\ state \in {"Created", "Initialized", "Started", "Drained"}
    /\ lastComp.op = "drain" =>
          /\ drain(lastComp.before).ret
          /\ state = "Drained"

\* A started component was drained.
C39_Witness ==
    /\ lastComp.op = "drain"
    /\ lastComp.before = "Started"
    /\ state = "Drained"

\* ------------------------------------------- claims on the coefficient files

\* C31: loadFromFile on a file that cannot be opened or that holds malformed
\* content returns normally and leaves every coefficient at its default.
C31_LoadFailureLeavesDefaults ==
    (/\ lastCoeff.op = "loadFromFile"
     /\ ~configFile.exists \/ configFile.lines \in MalformedFiles) =>
        /\ ~lastCoeff.threw
        /\ coefficients = setDefaults(coefficients)

\* C32: a file written by saveToFile(c), loaded into a new object, yields c
\* in every field.
C32_SaveLoadRoundTrip ==
    (/\ lastCoeff.op = "loadFromFile"
     /\ lastCoeff.fresh
     /\ lastCoeff.fromSave) =>
        /\ ~lastCoeff.threw
        /\ coefficients = lastCoeff.saved

\* ------------------------------------------------------- claims on reports

\* The snapshots the windows hold, window after window, without the default
\* snapshots the enhanced engine fills its windows with.
RECURSIVE StoredSnapshots(_, _)
StoredSnapshots(list, b) ==
    IF b > Len(list) THEN <<>>
    ELSE SelectSeq(list[b], LAMBDA x : x # NoStats)
             \o StoredSnapshots(list, b + 1)

\* C33: toJSON, printSummary, printDetailed, writeJSONFile, publishCycleToGUI
\* and publishFinalToGUI leave the summary and the windows as they were, in
\* both engines.
C33_ExportIsReadOnly ==
    [][lastStat'.op \in ExportOps =>
          /\ summary' = summary
          /\ hw_buffer_list' = hw_buffer_list]_vars

\* C34: writeJSONFile() writes the report file only with output_statistics
\* enabled, and a file that cannot be opened leaves the engine as it was.
C34_OutputStatisticsGatesReport ==
    [][lastStat'.op = "writeJSONFile" =>
          /\ ~exportParams.output_statistics => reportFile' = reportFile
          /\ ~Openable(exportParams.output_file) =>
                /\ reportFile' = reportFile
                /\ StatsState' = StatsState]_vars

\* The publish calls of the publisher.
PublishOps == {"publishEvent", "publishCycleUpdate"}

\* C35: every publish call returns normally in every publisher state, hands
\* a message to the socket only when the publisher is enabled and
\* initialized, and leaves the publisher enabled, initialized and connected
\* as it was, also when the send fails.
C35_PublishNeverFails ==
    lastGui.op \in PublishOps =>
        /\ ~lastGui.escaped
        /\ lastGui.handed =>
              lastGui.before.enabled /\ lastGui.before.initialized
        /\ gui.enabled = lastGui.before.enabled
        /\ gui.initialized = lastGui.before.initialized
        /\ gui.socket = lastGui.before.socket
        /\ lastGui.sendFailed =>
              gui = [lastGui.before EXCEPT
                        !.lastPublishCycle = gui.lastPublishCycle]

\* A message reached the socket and the send failed.
C35_Witness ==
    /\ lastGui.op \in PublishOps
    /\ lastGui.handed
    /\ lastGui.sendFailed

\* C36: with cycle tracking, at the end of cycle n the windows hold the
\* snapshots of cycles 1..n in order, each with the counters of its cycle, and
\* the current snapshot is empty at the start of a cycle.
C36_SnapshotPerCycle ==
    /\ (cycle_tracking /\ lastStat.op = "updateHWStatsCycleEnd") =>
          StoredSnapshots(hw_buffer_list, 1) = simCycle.done
    /\ lastStat.op = "updateHWStatsCycleStart" =>
          current_cycle_stats = NoStats

\* The distance between two cycle numbers.
Apart(a, b) == IF a >= b THEN a - b ELSE b - a

\* C40: two cycle_update messages emitted one after the other are at least
\* publishInterval cycles apart, none is emitted for a cycle below
\* publishInterval, and a suppressed call leaves lastPublishCycle as it was.
C40_CycleUpdatesRateLimited ==
    /\ Len(emitted) = 2 => Apart(emitted[1], emitted[2]) >= publishInterval
    /\ \A i \in 1 .. Len(emitted) : emitted[i] >= publishInterval
    /\ (lastGui.op = "publishCycleUpdate" /\ ~lastGui.handed) =>
          gui.lastPublishCycle = lastGui.before.lastPublishCycle

====
